---- MODULE Spec2Model ----
(***************************************************************************)
(* Model of the api-gateway-controller: the Gateway reconcile state        *)
(* machine (internal/gateway/controller/gateway.go) and the load balancer  *)
(* synchronizer (service/lb manager) against a provider that keeps a set   *)
(* of labelled L7 load balancers and a cluster that keeps one Gateway.     *)
(*                                                                         *)
(* A Reconcile pass is one atomic action (MaxConcurrentReconciles = 1, no  *)
(* background work inside a pass).  Every external call of the pass has a  *)
(* nondeterministic outcome; the pass is computed as the set of all the    *)
(* results the code can produce from the current cluster/provider state.   *)
(***************************************************************************)
EXTENDS Integers, Sequences, FiniteSets, TLC

\* ------------------------------------------------------------------------
\* Bounds
\* ------------------------------------------------------------------------
\* Provider ids available for load balancers of the modelled Gateway.
MaxLB == 2
\* HTTPRoutes in the cluster when the topology builder is taken on its own.
MaxRoutes == 2
\* Consecutive EnsureTLS calls when the TLS synchronizer is taken on its own.
MaxSyncs == 2

\* Writes of other clients to the Gateway's status that a pass has not seen,
\* and status patches of one pass.
MaxWrites == 1

MaxPatches == 2
\* Length of the host names hostMatches is tried on.
MaxHostLen == 4
\* Listeners of the Gateway when the TLS resolver is taken on its own.
MaxListeners == 2
\* Parent references of the route the route mapper is called on.
MaxParents == 2
\* Nodes of the cluster in a node IP collection.
MaxNodes == 2

\* ------------------------------------------------------------------------
\* Program constants
\* ------------------------------------------------------------------------
GW_FINALIZER == "k8s.srvrscloud.com/gateway-cleanup"
GW_LABEL_ID == "k8s.srvrscloud.com/api-gateway-id"
LB_ACTIVE_STATUS == "active"
\* ctrl.Result{RequeueAfter: 10 * time.Second}
RequeueDelay == 10

\* ------------------------------------------------------------------------
\* Universe of the model
\* ------------------------------------------------------------------------
GwUID == "gw-uid"
OtherUID == "other-uid"
\* GatewayReconciler.ControllerName and .GatewayClassName as configured: the
\* controller is restricted to the class "sc".
ControllerName == "k8s.srvrscloud.com/gateway-controller"
GatewayClassName == "sc"

\* Statuses the provider reports for a load balancer.
Statuses == {"pending", "active", "Active"}

\* strings.ToLower on the statuses of the model.
ToLower(s) == IF s = "Active" THEN "active" ELSE s

\* strings.EqualFold(a, b): equality under Unicode case folding.
EqualFold(a, b) == ToLower(a) = ToLower(b)

\* GatewayClasses of the cluster: name -> spec.controllerName ("" = the class
\* object does not exist).
GatewayClasses ==
  [n \in {"sc", "sc-alt", "foreign", "missing"} |->
     CASE n = "sc" -> ControllerName
       [] n = "sc-alt" -> ControllerName
       [] n = "foreign" -> "example.com/other-controller"
       [] OTHER -> ""]

ClassNames == DOMAIN GatewayClasses

\* ------------------------------------------------------------------------
\* Gateway specs of the model.  Each names what the resolver and the builder
\* compute from it.
\* ------------------------------------------------------------------------
GwSpecs == {"badtls", "badroutes", "noroutes", "tls"}

\* Hosts of the HTTPS listeners of a spec (the keys of the resolver's output).
TLSHostsOf(spec) == IF spec = "tls" THEN {"tls.io"} ELSE {}

CertIDs == {"cert-1"}

\* ------------------------------------------------------------------------
\* Values
\* ------------------------------------------------------------------------
NoCond == [status |-> "", reason |-> ""]
Cond(status, reason) == [status |-> status, reason |-> reason]

\* A Go map read: the zero value for a key that is not there.
MapGet(m, k) == IF k \in DOMAIN m THEN m[k] ELSE ""

Put(m, k, v) == [x \in DOMAIN m \cup {k} |-> IF x = k THEN v ELSE m[x]]

EmptyMap == [x \in {} |-> ""]

\* serverscom.L7LoadBalancer as returned to the orchestrator.
NoLB == [id |-> -1, status |-> "", addrs |-> <<>>]

\* L7LoadBalancer.ExternalAddresses of the provider's load balancers.
ExternalAddresses(id) == <<"203.0.113.10">>

LBResult(lb) == [id |-> lb.id, status |-> lb.status, addrs |-> ExternalAddresses(lb.id)]

\* One entry of the call trace of a pass.  fin: the stored Gateway carried
\* the cleanup finalizer when the call was made.
Call(op, sel, id, arg, fin) ==
  [op |-> op, sel |-> sel, id |-> id, arg |-> arg, fin |-> fin]

\* gatewayv1.GatewayClass as far as the controller reads and writes it.
GatewayClass(name, controllerName) ==
  [name |-> name, exists |-> TRUE, controllerName |-> controllerName,
   accepted |-> NoCond, finalizers |-> {}]

\* No GatewayClass under the key.
NoClass == [GatewayClass("", "") EXCEPT !.exists = FALSE]

VARIABLES
  gw,             \* the Gateway object stored in the cluster
  lbs,            \* the provider's load balancers
  pass,           \* what the last completed Reconcile pass did
  unit,           \* the last call of a component taken on its own: input and result
  certs,           \* the provider's custom certificates
  gc              \* the GatewayClass object stored in the cluster

\* The state outside the reconcile loop of the Gateway.
aux == <<unit, certs, gc>>

vars == <<gw, lbs, pass, unit, certs, gc>>

\* ------------------------------------------------------------------------
\* LB synchronizer: translation
\* ------------------------------------------------------------------------
UpstreamID(p) == [Service |-> p.Service, NodePort |-> p.NodePort]

Range(seq) == {seq[i] : i \in DOMAIN seq}

\* Mutant: an input without vhost zones or upstream zones is let through.
nothingToSync_Ignored(vhostZones, upstreamZones) == FALSE

\* len(vhostZones) == 0 || len(upstreamZones) == 0 (helpers.go 66).
nothingToSync(vhostZones, upstreamZones) == vhostZones = {} \/ upstreamZones = {}

\* translateGatewayToLBInput: the provider input built from the topology and
\* the host -> certificate id map, or an error when no vhost zone or no
\* upstream zone results.
translateGatewayToLBInput(gwInfo, tlsInfo) ==
  LET hosts == DOMAIN gwInfo.VHosts
      sslId(h) == IF gwInfo.VHosts[h].SSL /\ h \in DOMAIN tlsInfo THEN tlsInfo[h] ELSE ""
      upstreamZones == UNION {{UpstreamID(p) : p \in Range(gwInfo.VHosts[h].Paths)} : h \in hosts}
      kept == {h \in hosts : ~(Len(gwInfo.VHosts[h].Ports) = 0 \/ Len(gwInfo.VHosts[h].Paths) = 0)}
      vhostZones == {[ID |-> h, SSL |-> gwInfo.VHosts[h].SSL, SSLCertID |-> sslId(h),
                      Ports |-> gwInfo.VHosts[h].Ports,
                      LocationZones |-> {UpstreamID(p) : p \in Range(gwInfo.VHosts[h].Paths)}]
                       : h \in kept}
  IN  IF nothingToSync(vhostZones, upstreamZones)
        THEN [err |-> "translate", VHostZones |-> {}, UpstreamZones |-> {}, Label |-> gwInfo.UID]
        ELSE [err |-> "none", VHostZones |-> vhostZones, UpstreamZones |-> upstreamZones,
              Label |-> gwInfo.UID]

NoInput == [err |-> "unused", VHostZones |-> {}, UpstreamZones |-> {}, Label |-> ""]

\* ------------------------------------------------------------------------
\* Provider: L7 load balancers
\* ------------------------------------------------------------------------
\* getL7LoadBalancersByLabel: the provider's answers to a list by label.
getL7LoadBalancersByLabel(all, uid) ==
  LET items == {l \in all : l.label = uid}
  IN  {[err |-> "none", items |-> items], [err |-> "error", items |-> {}]}
        \cup (IF items = {} THEN {[err |-> "notfound", items |-> {}]} ELSE {})

FreeIDs(all) == {i \in 1..MaxLB : \A l \in all : l.id # i}

\* LoadBalancers.CreateL7LoadBalancer: (new provider state, returned object, error)
CreateL7LoadBalancer(all, input) ==
  {[lbs |-> all, ret |-> NoLB, err |-> "error"]}
    \cup (IF FreeIDs(all) = {} THEN {}
          ELSE LET id == CHOOSE i \in FreeIDs(all) : \A j \in FreeIDs(all) : i <= j
               IN  {[lbs |-> all \cup {[id |-> id, label |-> input.Label, status |-> s]},
                     ret |-> LBResult([id |-> id, status |-> s]), err |-> "none"]
                      : s \in {"pending", LB_ACTIVE_STATUS}})

\* LoadBalancers.UpdateL7LoadBalancer
UpdateL7LoadBalancer(all, lb, input) ==
  {[lbs |-> all, ret |-> NoLB, err |-> "error"]}
    \cup {[lbs |-> (all \ {lb}) \cup {[lb EXCEPT !.status = s]},
           ret |-> LBResult([lb EXCEPT !.status = s]), err |-> "none"]
            : s \in {lb.status, "pending"}}

\* LoadBalancers.DeleteL7LoadBalancer.  Not-found: the load balancer left the
\* provider between the list and the delete.
DeleteL7LoadBalancer(all, lb) ==
  {[lbs |-> all \ {lb}, err |-> "none"],
   [lbs |-> all, err |-> "error"],
   [lbs |-> all \ {lb}, err |-> "notfound"]}

\* utils.IgnoreNotFound
IgnoreNotFound(err) == IF err = "notfound" THEN "none" ELSE err

\* ------------------------------------------------------------------------
\* LB synchronizer
\* ------------------------------------------------------------------------
\* EnsureLB's dispatch on what the list returned (manager 39, 47, 52).
\* Mutant: EnsureLB creates without looking at what the list returned.
noneFound_Always(items) == TRUE

noneFound(items) == Cardinality(items) = 0

\* Mutant: the check for several load balancers is missing.
severalFound_Unchecked(items) == FALSE

severalFound(items) == Cardinality(items) > 1

\* Mutant: a load balancer that is not active yet is updated all the same.
notActiveYet_Skipped(lb) == FALSE

\* Mutant: the status is compared letter for letter.
notActiveYet_CaseSensitive(lb) == lb.status # LB_ACTIVE_STATUS

notActiveYet(lb) == ~EqualFold(lb.status, LB_ACTIVE_STATUS)

ListCall(uid, fin) == Call("lb.list", uid, -1, GW_LABEL_ID, fin)

\* Manager.EnsureLB: every result the call can have in provider state all.
\* listed: what the list returned; calls: provider calls issued.
EnsureLB(all, gwInfo, hostCertMap, fin) ==
  UNION {
    LET base == [listed |-> l.items, listErr |-> l.err, calls |-> <<ListCall(gwInfo.UID, fin)>>,
                 ret |-> NoLB, err |-> "none", lbs |-> all, input |-> NoInput]
        lbInput == translateGatewayToLBInput(gwInfo, hostCertMap)
    IN  IF l.err # "none" THEN {[base EXCEPT !.err = l.err]}
        ELSE IF noneFound(l.items) THEN
          IF lbInput.err # "none" THEN {[base EXCEPT !.err = lbInput.err]}
          ELSE {[base EXCEPT !.calls = Append(@, Call("lb.create", gwInfo.UID, -1, "", fin)),
                             !.ret = c.ret, !.err = c.err, !.lbs = c.lbs, !.input = lbInput]
                  : c \in CreateL7LoadBalancer(all, lbInput)}
        ELSE IF severalFound(l.items) THEN {[base EXCEPT !.err = "multiple"]}
        ELSE LET lb == CHOOSE x \in l.items : TRUE
             IN  IF notActiveYet(lb)
                   THEN {[base EXCEPT !.ret = [NoLB EXCEPT !.status = lb.status]]}
                 ELSE IF lbInput.err # "none" THEN {[base EXCEPT !.err = lbInput.err]}
                 ELSE {[base EXCEPT !.calls = Append(@, Call("lb.update", "", lb.id, "", fin)),
                                    !.ret = u.ret, !.err = u.err, !.lbs = u.lbs,
                                    !.input = lbInput]
                         : u \in UpdateL7LoadBalancer(all, lb, lbInput)}
    : l \in getL7LoadBalancersByLabel(all, gwInfo.UID) }

\* DeleteLB's guard before it indexes the list (manager 87).
severalToDelete(items) == Cardinality(items) > 1

\* Manager.DeleteLB.  err = "panic": lbs[0] on an empty list (index out of
\* range), the call does not return.  The delete call records the provider's
\* answer in sel.
DeleteLB(all, uid, fin) ==
  UNION {
    LET base == [listed |-> l.items, listErr |-> l.err, calls |-> <<ListCall(uid, fin)>>,
                 err |-> "none", lbs |-> all]
    IN  IF l.err # "none" THEN {[base EXCEPT !.err = IgnoreNotFound(l.err)]}
        ELSE IF severalToDelete(l.items) THEN {[base EXCEPT !.err = "multiple"]}
        ELSE IF Cardinality(l.items) = 0 THEN {[base EXCEPT !.err = "panic"]}
        ELSE LET lb == CHOOSE x \in l.items : TRUE
             IN  {[base EXCEPT !.calls = Append(@, Call("lb.delete", d.err, lb.id, "", fin)),
                               !.err = d.err, !.lbs = d.lbs]
                   : d \in DeleteL7LoadBalancer(all, lb)}
    : l \in getL7LoadBalancersByLabel(all, uid) }

\* ------------------------------------------------------------------------
\* Cluster client
\* ------------------------------------------------------------------------
HasFinalizer(o) == GW_FINALIZER \in o.finalizers

\* Context of a running pass: g is the in-memory Gateway, st the stored one.
NoSync == [called |-> FALSE, err |-> "none", listed |-> {}, listErr |-> "none",
           ret |-> NoLB, input |-> NoInput]

NewCtx(o, all) ==
  [g |-> o, st |-> o, lbs |-> all, calls |-> <<>>, failed |-> FALSE,
   tls |-> [called |-> FALSE, err |-> "none"], ens |-> NoSync, del |-> NoSync]

\* meta.SetStatusCondition on the in-memory object.
SetStatusCondition(o, condType, cond) ==
  IF condType = "Accepted" THEN [o EXCEPT !.accepted = cond]
                           ELSE [o EXCEPT !.programmed = cond]

\* r.Status().Patch(ctx, gw, client.MergeFrom(orig)): a JSON merge patch of
\* the status; conditions and addresses are lists, each replaced as a whole
\* when it differs from the snapshot.  On success the in-memory object
\* becomes the server's answer.  The results are <<context, error>> pairs.
StatusPatch(c, orig, what) ==
  LET call == Call("Status.Patch", "", -1, what, HasFinalizer(c.st))
      condsDiffer == <<c.g.accepted, c.g.programmed>> # <<orig.accepted, orig.programmed>>
      st2 == [c.st EXCEPT !.accepted = IF condsDiffer THEN c.g.accepted ELSE @,
                          !.programmed = IF condsDiffer THEN c.g.programmed ELSE @,
                          !.addresses = IF c.g.addresses # orig.addresses
                                          THEN c.g.addresses ELSE @]
      ok == [c EXCEPT !.st = st2, !.g = st2,
                      !.calls = Append(@, [call EXCEPT !.sel = "ok"])]
      ko == [c EXCEPT !.calls = Append(@, [call EXCEPT !.sel = "failed"]), !.failed = TRUE]
  IN  (IF c.st.exists THEN {<<ok, "none">>} ELSE {})
        \cup {<<ko, IF c.st.exists THEN "error" ELSE "notfound">>}

\* Mutant: the patch that adds a finalizer to a deleted object goes through.
newFinalizerRefused_Never(st, fins) == FALSE

\* The err of r.Patch (gateway.go 118) when the patch adds a finalizer to an
\* object whose deletion timestamp is set: the API server refuses it.
newFinalizerRefused(st, fins) == st.deleting /\ (fins \ st.finalizers) # {}

\* r.Patch(ctx, gw, client.MergeFrom(orig)) on the main resource: only the
\* finalizer list differs.  The API server refuses a new finalizer on an
\* object that is being deleted, and removes a deleted object when its last
\* finalizer goes.
Patch(c, orig) ==
  LET call == Call("Patch", "", -1, "finalizers", HasFinalizer(c.st))
      differ == c.g.finalizers # orig.finalizers
      fins == IF differ THEN c.g.finalizers ELSE c.st.finalizers
      forbidden == newFinalizerRefused(c.st, fins)
      st2 == [c.st EXCEPT !.finalizers = fins, !.exists = ~(c.st.deleting /\ fins = {})]
      ok == [c EXCEPT !.st = st2, !.g = st2,
                      !.calls = Append(@, [call EXCEPT !.sel = "ok"])]
      ko == [c EXCEPT !.calls = Append(@, [call EXCEPT !.sel = "failed"]), !.failed = TRUE]
  IN  (IF c.st.exists /\ ~forbidden THEN {<<ok, "none">>} ELSE {})
        \cup {<<ko, "error">>}

\* ------------------------------------------------------------------------
\* TLS synchronizer
\* ------------------------------------------------------------------------
SECRET_LABEL_ID == "k8s.srvrscloud.com/api-secret-id"

\* A nil *corev1.Secret.
NoSecret == [UID |-> "", HasCrt |-> FALSE, Crt |-> <<>>, HasKey |-> FALSE]

\* A corev1.Secret: Crt is the list of PEM blocks of tls.crt.
Secret(uid, crt) == [UID |-> uid, HasCrt |-> TRUE, Crt |-> crt, HasKey |-> TRUE]

\* types.TLSConfigInfo
TLSConfigInfo(externalID, secret) == [ExternalID |-> externalID, Secret |-> secret]

\* PEM blocks that decode as a CERTIFICATE, parse as X.509 and carry a DNS
\* name.
LeafBlocks == {"leaf-A", "leaf-B"}

\* splitCerts: the first PEM block and the rest.
splitCerts(crt) ==
  IF Len(crt) = 0 THEN [primary |-> "", chain |-> <<>>]
                  ELSE [primary |-> Head(crt), chain |-> Tail(crt)]

\* validateCertificate
validateCertificate(crt) ==
  IF splitCerts(crt).primary = "" THEN "can't find certificate"
  ELSE IF splitCerts(crt).primary \notin LeafBlocks THEN "can't parse certificate"
  ELSE "none"

\* getPemFingerprint: the sha1 of the DER bytes of the block, in hex.
getPemFingerprint(primary) == IF primary \in LeafBlocks THEN "sha1:" \o primary ELSE ""

NoCert == [ID |-> "", Label |-> "", Sha1Fingerprint |-> ""]

\* One provider call of the TLS synchronizer: answer is the provider's answer,
\* labelled tells whether the provider held a certificate with that label
\* when the call was made.
CertCall(op, id, label, answer, all) ==
  [op |-> op, id |-> id, label |-> label, answer |-> answer,
   labelled |-> \E c \in all : c.Label = label]

\* SSLCertificates.GetCustom
GetCustom(all, id) ==
  {[err |-> "error", cert |-> NoCert]}
    \cup (IF \E c \in all : c.ID = id
            THEN {[err |-> "none", cert |-> c] : c \in {x \in all : x.ID = id}}
            ELSE {[err |-> "notfound", cert |-> NoCert]})

\* SSLCertificates.Collection() with label_selector: the provider's answers.
ListCertificates(all, secretUID) ==
  LET items == {c \in all : c.Label = secretUID}
  IN  {[err |-> "none", items |-> items], [err |-> "error", items |-> {}]}
        \cup (IF items = {} THEN {[err |-> "notfound", items |-> {}]} ELSE {})

\* SSLCertificates.UpdateCustom: the certificate keeps its id and takes the
\* fingerprint of the new public key.
UpdateCustom(all, id, primary) ==
  {[err |-> "error", cert |-> NoCert, certs |-> all]}
    \cup {[err |-> "none", cert |-> [c EXCEPT !.Sha1Fingerprint = getPemFingerprint(primary)],
           certs |-> (all \ {c}) \cup {[c EXCEPT !.Sha1Fingerprint = getPemFingerprint(primary)]}]
            : c \in {x \in all : x.ID = id}}

\* SSLCertificates.CreateCustom: a new certificate labelled with the secret.
CreateCustom(all, secretUID, primary) ==
  LET new == [ID |-> "cert-of-" \o secretUID, Label |-> secretUID,
              Sha1Fingerprint |-> getPemFingerprint(primary)]
  IN  {[err |-> "error", cert |-> NoCert, certs |-> all]}
        \cup (IF \E c \in all : c.ID = new.ID THEN {}
              ELSE {[err |-> "none", cert |-> new, certs |-> all \cup {new}]})

\* Manager.findCertificate: the answers [err, found, listed, listErr].  The
\* order of the provider's list is not fixed: any certificate with the
\* fingerprint is the first that matches, any certificate is certs[0].
findCertificate(all, fingerprint, secretUID) ==
  UNION {
    LET base == [err |-> "none", found |-> NoCert, listed |-> l.items, listErr |-> l.err]
        same == {c \in l.items : c.Sha1Fingerprint = fingerprint}
    IN  IF l.err # "none" THEN {[base EXCEPT !.err = IgnoreNotFound(l.err)]}
        ELSE IF same # {} THEN {[base EXCEPT !.found = c] : c \in same}
        ELSE IF l.items # {} THEN {[base EXCEPT !.found = c] : c \in l.items}
        ELSE {base}
    : l \in ListCertificates(all, secretUID) }

\* Mutant: a certificate is never taken as unchanged.
sameFingerprint_Never(foundCrt, fingerprint) == FALSE

\* ensureCertificateForSecret's reuse test (manager.go 92).
sameFingerprint(foundCrt, fingerprint) ==
  foundCrt # NoCert /\ foundCrt.Sha1Fingerprint = fingerprint

\* Mutant: a certificate that was found is not updated, a new one is created.
updatable_Never(foundCrt) == FALSE

\* ensureCertificateForSecret's update test (manager.go 95).
updatable(foundCrt) == foundCrt # NoCert /\ foundCrt.ID # ""

\* Manager.ensureCertificateForSecret: [err, cert, certs, calls].
ensureCertificateForSecret(all, fingerprint, secretUID, primary) ==
  UNION {
    LET listCall == CertCall("cert.list", "", secretUID, f.listErr, all)
        base == [err |-> f.err, cert |-> NoCert, certs |-> all, calls |-> <<listCall>>]
    IN  IF f.err # "none" THEN {base}
        ELSE IF sameFingerprint(f.found, fingerprint) THEN {[base EXCEPT !.cert = f.found]}
        ELSE IF updatable(f.found)
          THEN {[base EXCEPT !.err = u.err, !.cert = u.cert, !.certs = u.certs,
                             !.calls = Append(@, CertCall("cert.update", f.found.ID, secretUID,
                                                          u.err, all))]
                  : u \in UpdateCustom(all, f.found.ID, primary)}
        ELSE {[base EXCEPT !.err = c.err, !.cert = c.cert, !.certs = c.certs,
                           !.calls = Append(@, CertCall("cert.create", c.cert.ID, secretUID,
                                                        c.err, all))]
                : c \in CreateCustom(all, secretUID, primary)}
    : f \in findCertificate(all, fingerprint, secretUID) }

\* One host of EnsureTLS's loop (manager.go 36-67): [err, id, certs, calls].
ensureHost(all, info) ==
  LET fail(e) == {[err |-> e, id |-> "", certs |-> all, calls |-> <<>>]}
  IN  IF info.ExternalID # ""
        THEN {[err |-> g.err, id |-> g.cert.ID, certs |-> all,
               calls |-> <<CertCall("cert.get", info.ExternalID, "", g.err, all)>>]
                : g \in GetCustom(all, info.ExternalID)}
      ELSE IF info.Secret = NoSecret THEN fail("no secret or ExternalID")
      ELSE IF ~info.Secret.HasCrt THEN fail("no tls.crt")
      ELSE IF ~info.Secret.HasKey THEN fail("no tls.key")
      ELSE IF validateCertificate(info.Secret.Crt) # "none" THEN fail("invalid certificate")
      ELSE LET primary == splitCerts(info.Secret.Crt).primary
               fp == getPemFingerprint(primary)
           IN  {[err |-> e.err, id |-> e.cert.ID, certs |-> e.certs, calls |-> e.calls]
                  : e \in ensureCertificateForSecret(all, fp, info.Secret.UID, primary)}

\* A run of EnsureTLS: res is the host -> certificate id map so far, errHost
\* the host the error names.
NewRun(all) == [res |-> EmptyMap, err |-> "none", errHost |-> "", certs |-> all, calls |-> <<>>]

\* Manager.EnsureTLS: the loop over the map tlsInfo visits the hosts in any
\* order and returns at the first error, with a nil map.
RECURSIVE EnsureTLSFrom(_, _, _)
EnsureTLSFrom(tlsInfo, todo, run) ==
  IF todo = {} THEN {run}
  ELSE UNION { UNION {
         IF h.err # "none"
           THEN {[run EXCEPT !.res = EmptyMap, !.err = h.err, !.errHost = host,
                             !.certs = h.certs, !.calls = @ \o h.calls]}
           ELSE EnsureTLSFrom(tlsInfo, todo \ {host},
                              [run EXCEPT !.res = Put(@, host, h.id), !.certs = h.certs,
                                          !.calls = @ \o h.calls])
         : h \in ensureHost(run.certs, tlsInfo[host]) }
       : host \in todo }

EnsureTLS(tlsInfo, all) == EnsureTLSFrom(tlsInfo, DOMAIN tlsInfo, NewRun(all))

\* ------------------------------------------------------------------------
\* Topology builder
\* ------------------------------------------------------------------------
\* A nil pointer of the API types.
Nil == "<nil>"

\* A nil pointer to a port number.
NilPort == -1

GwName == "gw"
GwNamespace == "ns-a"
GroupName == "gateway.networking.k8s.io"

\* The characters of the host names of the model.
Chars(h) ==
  CASE h = "" -> <<>>
    [] h = "io" -> <<"i", "o">>
    [] h = "*.io" -> <<"*", ".", "i", "o">>
    [] h = "tls.io" -> <<"t", "l", "s", ".", "i", "o">>
    [] h = "idle.io" -> <<"i", "d", "l", "e", ".", "i", "o">>
    [] h = "xio" -> <<"x", "i", "o">>
    [] OTHER -> <<h>>

HasPrefix(s, prefix) == Len(s) >= Len(prefix) /\ SubSeq(s, 1, Len(prefix)) = prefix

HasSuffix(s, suffix) ==
  Len(s) >= Len(suffix) /\ SubSeq(s, Len(s) - Len(suffix) + 1, Len(s)) = suffix

\* Mutant: the wildcard matches every name that ends in the suffix, the apex
\* included.
hostMatches_ApexIncluded(listenerHost, routeHost) ==
  \/ listenerHost = <<>> \/ listenerHost = routeHost
  \/ /\ HasPrefix(listenerHost, <<"*", ".">>) /\ Len(listenerHost) > 2
     /\ HasSuffix(routeHost, Tail(Tail(listenerHost)))

\* hostMatches, on the characters of the two names.
hostMatches(listenerHost, routeHost) ==
  IF listenerHost = <<>> THEN TRUE
  ELSE IF listenerHost = routeHost THEN TRUE
  ELSE IF HasPrefix(listenerHost, <<"*", ".">>) /\ Len(listenerHost) > 2
    THEN HasSuffix(routeHost, Tail(listenerHost))
  ELSE FALSE

isRouteAttachedToGateway(route, g) ==
  \E i \in DOMAIN route.ParentRefs :
    LET parent == route.ParentRefs[i]
        ns == IF parent.Namespace # Nil THEN parent.Namespace ELSE route.Namespace
    IN  /\ ~(parent.Kind # Nil /\ parent.Kind # "Gateway")
        /\ ~(parent.Group # Nil /\ parent.Group # GroupName)
        /\ parent.Name = g.Name
        /\ ns = g.Namespace

isRouteNamespaceAllowed(listener, listenerNS, routeNS, nsLabels) ==
  CASE listener.AllowedFrom = "All" -> TRUE
    [] listener.AllowedFrom = "Same" -> listenerNS = routeNS
    [] listener.AllowedFrom = "Selector" ->
         \A k \in DOMAIN listener.Selector : MapGet(nsLabels, k) = listener.Selector[k]
    [] OTHER -> listenerNS = routeNS

\* types.ListenerInfo of a listener of the Gateway (gateway.go 264-288).  A
\* nil MatchLabels is the empty map.
ListenerInfo(l) ==
  [Name |-> l.Name,
   Hostname |-> IF l.Hostname # Nil THEN l.Hostname ELSE "",
   Protocol |-> l.Protocol,
   Port |-> l.Port,
   AllowedFrom |-> IF l.From # Nil THEN l.From ELSE "Same",
   Selector |-> IF l.From = "Selector" THEN l.MatchLabels ELSE EmptyMap]

\* The listeners loop: an error on a listener name seen before.
prepareListeners(specListeners) ==
  IF \E i, j \in DOMAIN specListeners : i < j /\ specListeners[i].Name = specListeners[j].Name
    THEN [err |-> "duplicate listener name", listeners |-> <<>>]
    ELSE [err |-> "none",
          listeners |-> [i \in DOMAIN specListeners |-> ListenerInfo(specListeners[i])]]

\* One rule of a route: the paths it contributes (gateway.go 389-457).
rulePaths(cl, route, rule) ==
  IF Len(rule.BackendRefs) = 0 THEN [err |-> "none", paths |-> <<>>]
  ELSE
    LET backend == rule.BackendRefs[1]
        ns == IF backend.Namespace # Nil THEN backend.Namespace ELSE route.Namespace
        key == <<ns, backend.Name>>
    IN  IF backend.Group # Nil /\ backend.Group # ""
          THEN [err |-> "non-core backend groups not supported", paths |-> <<>>]
        ELSE IF key \notin DOMAIN cl.Services
          THEN [err |-> "failed to get service", paths |-> <<>>]
        ELSE
          LET svc == cl.Services[key]
              wantPort == IF backend.Port # NilPort THEN backend.Port
                          ELSE IF Len(svc.Ports) > 0 THEN svc.Ports[1].Port ELSE 0
              hits == {i \in DOMAIN svc.Ports : svc.Ports[i].Port = wantPort}
          IN  IF hits = {} THEN [err |-> "port not found", paths |-> <<>>]
              ELSE
                LET first == CHOOSE i \in hits : \A j \in hits : i <= j
                    usable(m) == m.Value # Nil
                                   /\ (IF m.Type # Nil THEN m.Type ELSE "PathPrefix") = "PathPrefix"
                    values == IF Len(rule.Matches) = 0 THEN <<"/">>
                              ELSE LET kept == SelectSeq(rule.Matches, usable)
                                   IN  [i \in DOMAIN kept |-> kept[i].Value]
                IN  IF svc.Ports[first].NodePort = 0
                      THEN [err |-> "service has no NodePort", paths |-> <<>>]
                      ELSE [err |-> "none",
                            paths |-> [i \in DOMAIN values |->
                                         [Path |-> values[i], Service |-> svc.Name,
                                          NodePort |-> svc.Ports[first].NodePort]]]

\* The rules loop of a route for one of its hostnames: stops at the first
\* error.
RECURSIVE routePaths(_, _, _)
routePaths(cl, route, i) ==
  IF i > Len(route.Rules) THEN [err |-> "none", paths |-> <<>>]
  ELSE LET r == rulePaths(cl, route, route.Rules[i])
           rest == routePaths(cl, route, i + 1)
       IN  IF r.err # "none" THEN r
           ELSE IF rest.err # "none" THEN rest
           ELSE [err |-> "none", paths |-> r.paths \o rest.paths]

\* routeForDomain keeps the name of the route that claimed a hostname
\* (gateway.go 327).
claimedByOther(routeForDomain, hostname, route) ==
  hostname \in DOMAIN routeForDomain /\ routeForDomain[hostname] # route.Name

\* One hostname of an attached route (gateway.go 326-458).  st is the state
\* of the build: err, vhostMap, routeForDomain.
addHostname(st, g, cl, listeners, route, sectionNames, nsLabels, hostname) ==
  IF claimedByOther(st.routeForDomain, hostname, route)
    THEN [st EXCEPT !.err = "domain used in several HTTPRoute"]
  ELSE
    LET st1 == [st EXCEPT !.routeForDomain = Put(@, hostname, route.Name)]
        matches(l) == /\ (sectionNames = {} \/ l.Name \in sectionNames)
                      /\ isRouteNamespaceAllowed(l, g.Namespace, route.Namespace, nsLabels)
                      /\ hostMatches(Chars(l.Hostname), Chars(hostname))
        matchedListeners == SelectSeq(listeners, matches)
        ssl == \E i \in DOMAIN matchedListeners : matchedListeners[i].Protocol = "HTTPS"
        counts(l) == (ssl /\ l.Protocol = "HTTPS") \/ (~ssl /\ l.Protocol = "HTTP")
        counted == SelectSeq(matchedListeners, counts)
        ports == [i \in DOMAIN counted |-> counted[i].Port]
    IN  IF Len(matchedListeners) = 0 THEN st1
        ELSE
          LET vh == IF hostname \notin DOMAIN st1.vhostMap
                      THEN [Host |-> hostname, SSL |-> ssl, Ports |-> ports, Paths |-> <<>>]
                      ELSE LET old == st1.vhostMap[hostname]
                               fresh(p) == \A i \in DOMAIN old.Ports : old.Ports[i] # p
                           IN  [old EXCEPT !.Ports = @ \o SelectSeq(ports, fresh),
                                           !.SSL = @ \/ ssl]
              r == routePaths(cl, route, 1)
          IN  IF r.err # "none" THEN [st1 EXCEPT !.err = r.err]
              ELSE [st1 EXCEPT !.vhostMap = Put(@, hostname, [vh EXCEPT !.Paths = @ \o r.paths])]

RECURSIVE addHostnames(_, _, _, _, _, _, _, _)
addHostnames(st, g, cl, listeners, route, sectionNames, nsLabels, i) ==
  IF st.err # "none" \/ i > Len(route.Hostnames) THEN st
  ELSE addHostnames(addHostname(st, g, cl, listeners, route, sectionNames, nsLabels,
                                route.Hostnames[i]),
                    g, cl, listeners, route, sectionNames, nsLabels, i + 1)

ContainsStar(h) == \E i \in DOMAIN Chars(h) : Chars(h)[i] = "*"

\* One route of the list (gateway.go 299-459).
addRoute(st, g, cl, listeners, route) ==
  IF ~isRouteAttachedToGateway(route, g) THEN st
  ELSE IF Len(route.Hostnames) = 0 THEN [st EXCEPT !.err = "Hostname must be specified"]
  ELSE IF \E i \in DOMAIN route.Hostnames :
            route.Hostnames[i] = "" \/ ContainsStar(route.Hostnames[i])
    THEN [st EXCEPT !.err = "Invalid hostname"]
  ELSE IF route.Namespace \notin DOMAIN cl.Namespaces
    THEN [st EXCEPT !.err = "cannot get labels for namespace"]
  ELSE
    LET sectionNames == {route.ParentRefs[i].SectionName : i \in DOMAIN route.ParentRefs} \ {Nil}
    IN  addHostnames(st, g, cl, listeners, route, sectionNames,
                     cl.Namespaces[route.Namespace], 1)

RECURSIVE addRoutes(_, _, _, _, _, _)
addRoutes(st, g, cl, listeners, routes, i) ==
  IF st.err # "none" \/ i > Len(routes) THEN st
  ELSE addRoutes(addRoute(st, g, cl, listeners, routes[i]), g, cl, listeners, routes, i + 1)

\* buildGatewayInfo on a Gateway g with listeners specListeners, the
\* HTTPRoutes routes the List returns and the cluster objects cl, when every
\* cluster read succeeds: the error and the VHosts map.
BuildVHosts(g, specListeners, routes, cl) ==
  LET p == prepareListeners(specListeners)
      st0 == [err |-> "none", vhostMap |-> [h \in {} |-> Nil], routeForDomain |-> EmptyMap]
  IN  IF p.err # "none" THEN [err |-> p.err, VHosts |-> st0.vhostMap]
      ELSE LET st == addRoutes(st0, g, cl, p.listeners, routes, 1)
           IN  IF st.err # "none" THEN [err |-> st.err, VHosts |-> st0.vhostMap]
               ELSE [err |-> "none", VHosts |-> st.vhostMap]

\* ------------------------------------------------------------------------
\* Cluster objects of the model
\* ------------------------------------------------------------------------
TheGateway == [Name |-> GwName, Namespace |-> GwNamespace]

Cluster ==
  [Services |-> [k \in {<<"ns-a", "svc">>, <<"ns-b", "svc">>, <<"ns-a", "clusterip">>} |->
                   IF k[2] = "clusterip"
                     THEN [Name |-> k[2], Ports |-> <<[Port |-> 80, NodePort |-> 0]>>]
                     ELSE [Name |-> k[2], Ports |-> <<[Port |-> 80, NodePort |-> 30080]>>]],
   Namespaces |-> [n \in {"ns-a", "ns-b"} |->
                     IF n = "ns-b" THEN [k \in {"team"} |-> "edge"] ELSE EmptyMap]]

Listener(name, hostname, protocol, port, from) ==
  [Name |-> name, Hostname |-> hostname, Protocol |-> protocol, Port |-> port,
   From |-> from, MatchLabels |-> EmptyMap]

ParentRef(name, sectionName) ==
  [Kind |-> Nil, Group |-> Nil, Name |-> name, Namespace |-> GwNamespace,
   SectionName |-> sectionName]

BackendRef(name) == [Group |-> Nil, Name |-> name, Namespace |-> Nil, Port |-> NilPort]

Rule(backends) == [BackendRefs |-> backends, Matches |-> <<>>]

HTTPRoute(ns, name, parents, hostnames, rules) ==
  [Namespace |-> ns, Name |-> name, ParentRefs |-> parents, Hostnames |-> hostnames,
   Rules |-> rules]

\* gw.Spec.Listeners of the Gateway specs of the model.
ListenersOf(spec) ==
  <<Listener("https", "tls.io", "HTTPS", 443, Nil),
    Listener("http", "idle.io", "HTTP", 80, Nil)>>

\* The HTTPRoutes of the cluster under each Gateway spec of the model.
HTTPRoutesOf(spec) ==
  LET web == HTTPRoute("ns-a", "web", <<ParentRef(GwName, Nil)>>, <<"tls.io">>,
                       <<Rule(<<BackendRef("svc")>>)>>)
      idle == HTTPRoute("ns-a", "idle", <<ParentRef(GwName, Nil)>>, <<"idle.io">>, <<>>)
      other == HTTPRoute("ns-a", "other", <<ParentRef(GwName, Nil)>>, <<"tls.io">>,
                         <<Rule(<<BackendRef("svc")>>)>>)
  IN  CASE spec = "tls" -> <<web, idle>>
        [] spec = "badroutes" -> <<web, other>>
        [] OTHER -> <<>>

\* types.GatewayInfo.VHosts built for a spec (host -> VHostInfo).
VHostsOf(spec) == BuildVHosts(TheGateway, ListenersOf(spec), HTTPRoutesOf(spec), Cluster).VHosts

\* ------------------------------------------------------------------------
\* Reconcile orchestrator
\* ------------------------------------------------------------------------
\* setGatewayStatusCondition
setGatewayStatusCondition(c, condType, reason, status) ==
  LET orig == c.g
      c2 == [c EXCEPT !.g = SetStatusCondition(c.g, condType, Cond(status, reason))]
  IN  StatusPatch(c2, orig, condType \o "=" \o status \o "/" \o reason)

\* isManagedGateway: <<managed, error>> answers.  A class that does not exist
\* is a not-found error of the Get, which is ignored.
isManagedGateway(o, restriction) ==
  LET controller == GatewayClasses[o.className]
  IN  {<<FALSE, "error">>}
        \cup {<<IF controller = "" THEN FALSE
                ELSE IF controller # ControllerName THEN FALSE
                ELSE IF restriction # "" /\ o.className # restriction THEN FALSE
                ELSE TRUE, "none">>}

\* The error checks of the orchestrator (gateway.go 234, 115, 124, 132, 143,
\* 151, 158).
\* Mutant: cleanup goes on after a failed DeleteLB.
deleteFailed_Ignored(err) == FALSE

deleteFailed(err) == err # "none"

\* Mutant: the finalizer is never added.
finalizerMissing_Never(o) == FALSE

finalizerMissing(o) == ~HasFinalizer(o)

\* Mutant: the pass goes on after a failed TLS resolution.
tlsInfoInvalid_Ignored(err) == FALSE

tlsInfoInvalid(err) == err # "none"

\* Mutant: the pass goes on after a failed topology build.
gwInfoInvalid_Ignored(err) == FALSE

gwInfoInvalid(err) == err # "none"

\* Mutant: a failed TLS sync does not stop the pass.
tlsSyncFailed_Ignored(err) == FALSE

tlsSyncFailed(err) == err # "none"

lbSyncFailed(err) == err # "none"

\* Mutant: the pass does not look at the status EnsureLB returned.
lbNotActive_Ignored(lb) == FALSE

lbNotActive(lb) == ToLower(lb.status) # LB_ACTIVE_STATUS

\* GatewayReconciler.cleanup: <<context, error>> results.
cleanup(c) ==
  UNION {
    LET c2 == [c EXCEPT !.lbs = d.lbs,
                        !.calls = (Append(@, Call("DeleteLB", GwUID, -1, GW_LABEL_ID,
                                                  HasFinalizer(c.st)))) \o d.calls,
                        !.failed = @ \/ d.err \in {"error", "notfound"}
                                     \/ d.listErr = "error",
                        !.del = [NoSync EXCEPT !.called = TRUE, !.err = d.err,
                                               !.listed = d.listed, !.listErr = d.listErr]]
    IN  IF deleteFailed(d.err) THEN {<<c2, d.err>>}
        ELSE LET orig == c2.g
                 c3 == [c2 EXCEPT !.g.finalizers = @ \ {GW_FINALIZER}]
             IN  Patch(c3, orig)
    : d \in DeleteLB(c.lbs, c.g.uid, HasFinalizer(c.st)) }

\* buildTLSInfo: <<host set of the resolved TLS requirements, error>>.
buildTLSInfo(o) ==
  IF o.spec = "badtls" THEN {<<{}, "validation">>}
  ELSE IF TLSHostsOf(o.spec) = {} THEN {<<{}, "none">>}
  ELSE {<<TLSHostsOf(o.spec), "none">>, <<{}, "secret">>}

\* buildGatewayInfo: <<types.GatewayInfo, error>>.
\* A cluster read of the build (nodes, routes, namespace, service) may fail.
buildGatewayInfo(o) ==
  LET b == BuildVHosts(TheGateway, ListenersOf(o.spec), HTTPRoutesOf(o.spec), Cluster)
      info == [UID |-> o.uid, VHosts |-> b.VHosts]
  IN  {<<info, "error">>}
        \cup (IF b.err # "none" THEN {} ELSE {<<info, "none">>})

\* r.TLSMgr.EnsureTLS as the orchestrator sees it through TLSManagerInterface:
\* <<host -> certificate id, error>>.
TLSMgrEnsureTLS(tlsHosts) ==
  IF tlsHosts = {} THEN {<<[h \in {} |-> ""], "none">>}
  ELSE {<<[h \in {} |-> ""], "error">>}
         \cup {<<[h \in tlsHosts |-> id], "none">> : id \in CertIDs}

Finish(c, requeueAfter, err) == [c |-> c, requeueAfter |-> requeueAfter, err |-> err]

\* Mutant: the pass forgets to ask for its re-invocation.
Requeue_Forgotten(c) == Finish(c, 0, "none")

\* return ctrl.Result{RequeueAfter: 10 * time.Second}, nil
Requeue(c) == Finish(c, RequeueDelay, "none")

\* A call of the pass that touches no provider load balancer, with the error
\* it returned.
Mark(c, op, err) == [c EXCEPT !.calls = Append(@, Call(op, err, -1, "", HasFinalizer(c.st)))]

\* Reconcile, from the load balancer sync on (gateway.go 149-186).
ReconcileLB(c0, gwInfo, hostsCertIDMap) ==
  UNION {
    LET c == [c0 EXCEPT !.lbs = e.lbs,
                        !.calls = Append(@, Call("EnsureLB", gwInfo.UID, -1, "",
                                                 HasFinalizer(c0.st))) \o e.calls,
                        !.failed = @ \/ e.err \in {"error", "notfound"},
                        !.ens = [called |-> TRUE, err |-> e.err, listed |-> e.listed,
                                 listErr |-> e.listErr, ret |-> e.ret, input |-> e.input]]
    IN  IF lbSyncFailed(e.err)
          THEN {Requeue(p[1])
                  : p \in setGatewayStatusCondition(c, "Programmed", "SyncFailed", "False")}
        ELSE IF lbNotActive(e.ret)
          THEN {Requeue(p[1])
                  : p \in setGatewayStatusCondition(c, "Programmed", "Created", "False")}
        ELSE LET orig == c.g
                 g2 == SetStatusCondition([c.g EXCEPT !.addresses = e.ret.addrs],
                                          "Programmed", Cond("True", "Programmed"))
             IN  {Finish(p[1], 0, p[2])
                    : p \in StatusPatch([c EXCEPT !.g = g2], orig,
                                        "Programmed=True/Programmed")}
    : e \in EnsureLB(c0.lbs, gwInfo, hostsCertIDMap, HasFinalizer(c0.st)) }

\* Reconcile, from the TLS sync on (gateway.go 138-147).
ReconcileSync(c0, tlsHosts, gwInfo) ==
  UNION {
    UNION {
      LET c == [Mark(a[1], "EnsureTLS", t[2]) EXCEPT !.tls = [called |-> TRUE, err |-> t[2]],
                                               !.failed = @ \/ t[2] # "none"]
      IN  IF tlsSyncFailed(t[2])
            THEN {Requeue(p[1])
                    : p \in setGatewayStatusCondition(c, "Programmed", "SyncTLSFailed",
                                                      "False")}
            ELSE ReconcileLB(c, gwInfo, t[1])
      : t \in TLSMgrEnsureTLS(tlsHosts) }
    : a \in setGatewayStatusCondition(c0, "Accepted", "Accepted", "True") }

\* Reconcile, the managed path (gateway.go 114-136).
ReconcileManaged(c0) ==
  LET withFinalizer ==
        IF finalizerMissing(c0.g)
          THEN Patch([c0 EXCEPT !.g.finalizers = @ \cup {GW_FINALIZER}], c0.g)
          ELSE {<<c0, "none">>}
  IN  UNION {
        IF f[2] # "none" THEN {Finish(f[1], 0, f[2])}
        ELSE UNION {
          LET c1 == [Mark(f[1], "buildTLSInfo", t[2]) EXCEPT !.failed = @ \/ t[2] = "secret"]
          IN  IF tlsInfoInvalid(t[2])
                THEN {Finish(p[1], 0, "none")
                        : p \in setGatewayStatusCondition(c1, "Accepted", "InvalidTLS",
                                                          "False")}
                ELSE UNION {
                  LET c2 == [Mark(c1, "buildGatewayInfo", b[2]) EXCEPT
                               !.failed = @ \/ (b[2] # "none" /\ c1.g.spec # "badroutes")]
                  IN  IF gwInfoInvalid(b[2])
                        THEN {Finish(p[1], 0, "none")
                                : p \in setGatewayStatusCondition(c2, "Accepted",
                                                                  "InvalidGateway", "False")}
                        ELSE ReconcileSync(c2, t[1], b[1])
                  : b \in buildGatewayInfo(c1.g) }
          : t \in buildTLSInfo(f[1].g) }
        : f \in withFinalizer }

\* GatewayReconciler.Reconcile: every result a pass can have on the stored
\* Gateway o and the provider state all.
ReconcileResults(o, all, restriction) ==
  LET c0 == NewCtx(o, all)
      c1 == Mark(c0, "Get", "none")
  IN  IF ~o.exists THEN {Finish(Mark(c0, "Get", "notfound"), 0, "none")}
      ELSE {Finish([Mark(c0, "Get", "error") EXCEPT !.failed = TRUE], 0, "error")} \cup
        (IF o.deleting /\ HasFinalizer(o)
           THEN {Finish(r[1], 0, r[2]) : r \in cleanup(c1)}
         ELSE UNION {
           LET c2 == Mark(c1, "isManagedGateway", m[2])
           IN  IF m[2] # "none" THEN {Finish([c2 EXCEPT !.failed = TRUE], 0, m[2])}
               ELSE IF ~m[1] THEN
                 UNION {
                   IF r[2] # "none" THEN {Finish(r[1], 0, r[2])}
                   ELSE LET c == r[1]
                            g2 == SetStatusCondition(c.g, "Programmed",
                                                     Cond("False", "NoLongerManaged"))
                        IN  {Finish(p[1], 0, p[2])
                               : p \in StatusPatch([c EXCEPT !.g = g2], c.g,
                                                   "Programmed=False/NoLongerManaged")}
                   : r \in cleanup(c2) }
               ELSE ReconcileManaged(c2)
           : m \in isManagedGateway(o, restriction) })

\* ------------------------------------------------------------------------
\* State machine
\* ------------------------------------------------------------------------
NewGateway(className, spec) ==
  [uid |-> GwUID, exists |-> TRUE, deleting |-> FALSE, finalizers |-> {},
   className |-> className, spec |-> spec,
   accepted |-> NoCond, programmed |-> NoCond, addresses |-> <<>>]

\* What a pass saw of the Gateway it fetched.
Snapshot(o) ==
  [exists |-> o.exists, deleting |-> o.deleting, finalizers |-> o.finalizers,
   className |-> o.className, spec |-> o.spec, programmed |-> o.programmed]

\* A Gateway that is gone from the cluster.
Gone == [NewGateway("sc", "tls") EXCEPT !.exists = FALSE, !.deleting = TRUE]

Stored(o) == IF o.exists THEN o ELSE Gone

\* The record kept of a pass: pre is the Gateway the pass fetched, local the
\* in-memory Gateway when the pass returned.
PassOf(o, all, r) ==
  [ran |-> TRUE, pre |-> Snapshot(o), local |-> r.c.g, calls |-> r.c.calls,
   requeueAfter |-> r.requeueAfter, err |-> r.err, failed |-> r.c.failed,
   tls |-> r.c.tls, ens |-> r.c.ens, del |-> r.c.del,
   lbsChanged |-> r.c.lbs # all]

NoPass ==
  LET o == NewGateway("sc", "tls")
  IN  [PassOf(o, {}, Finish(NewCtx(o, {}), 0, "none")) EXCEPT !.ran = FALSE]

\* No component has been called on its own.
NoUnit == [op |-> "none"]

Init ==
  /\ \E cn \in ClassNames, sp \in GwSpecs : gw = NewGateway(cn, sp)
  /\ lbs = {[id |-> 0, label |-> OtherUID, status |-> LB_ACTIVE_STATUS]}
  /\ pass = NoPass
  /\ unit = NoUnit
  /\ certs = {}
  /\ gc = NoClass

\* One Reconcile pass on the Gateway's key.
Reconcile ==
  \E r \in ReconcileResults(gw, lbs, GatewayClassName) :
    /\ gw' = Stored(r.c.st)
    /\ lbs' = r.c.lbs
    /\ pass' = PassOf(gw, lbs, r)
    /\ UNCHANGED aux

\* The user edits the Gateway's listeners or the routes attached to it.
UserChangeSpec ==
  /\ gw.exists
  /\ \E sp \in GwSpecs \ {gw.spec} : gw' = [gw EXCEPT !.spec = sp]
  /\ pass' = NoPass /\ UNCHANGED <<lbs, aux>>

\* The user points the Gateway at another GatewayClass.
UserChangeClass ==
  /\ gw.exists
  /\ \E cn \in ClassNames \ {gw.className} : gw' = [gw EXCEPT !.className = cn]
  /\ pass' = NoPass /\ UNCHANGED <<lbs, aux>>

\* The user deletes the Gateway: the deletion timestamp is set, and the
\* object goes at once when it carries no finalizer.
UserDelete ==
  /\ gw.exists /\ ~gw.deleting
  /\ gw' = Stored([gw EXCEPT !.deleting = TRUE, !.exists = gw.finalizers # {}])
  /\ pass' = NoPass /\ UNCHANGED <<lbs, aux>>

\* The provider moves a load balancer of the Gateway to another status.
ProviderProgress ==
  /\ \E lb \in lbs, s \in Statuses :
       /\ lb.label = GwUID /\ s # lb.status
       /\ lbs' = (lbs \ {lb}) \cup {[lb EXCEPT !.status = s]}
  /\ pass' = NoPass /\ UNCHANGED <<gw, aux>>

\* Somebody else (an operator, a stale leader) creates a load balancer that
\* carries the Gateway's label.
ForeignCreateLB ==
  /\ FreeIDs(lbs) # {}
  /\ \E i \in FreeIDs(lbs), s \in {"pending", LB_ACTIVE_STATUS} :
       lbs' = lbs \cup {[id |-> i, label |-> GwUID, status |-> s]}
  /\ pass' = NoPass /\ UNCHANGED <<gw, aux>>

Next ==
  \/ Reconcile
  \/ UserChangeSpec
  \/ UserChangeClass
  \/ UserDelete
  \/ ProviderProgress
  \/ ForeignCreateLB

Spec == Init /\ [][Next]_vars

\* The provider as only the controller writes to it: every load balancer
\* carrying the Gateway's label was created by a Reconcile pass.
NextOwned ==
  \/ Reconcile
  \/ UserChangeSpec
  \/ UserChangeClass
  \/ UserDelete
  \/ ProviderProgress

SpecOwned == Init /\ [][NextOwned]_vars

\* A Gateway that also carries the finalizer of another controller, which
\* keeps the object in the cluster after its deletion until it is released.
OTHER_FINALIZER == "example.com/hold"

InitHeld ==
  /\ \E cn \in {"sc", "foreign"}, sp \in {"tls", "noroutes"} :
       gw = [NewGateway(cn, sp) EXCEPT !.finalizers = {OTHER_FINALIZER}]
  /\ lbs = {}
  /\ pass = NoPass
  /\ unit = NoUnit
  /\ certs = {}
  /\ gc = NoClass

\* The other controller is done with the Gateway and removes its finalizer.
OtherRelease ==
  /\ gw.exists /\ gw.deleting /\ OTHER_FINALIZER \in gw.finalizers
  /\ gw' = Stored([gw EXCEPT !.finalizers = @ \ {OTHER_FINALIZER},
                             !.exists = gw.finalizers # {OTHER_FINALIZER}])
  /\ pass' = NoPass /\ UNCHANGED <<lbs, aux>>

NextHeld ==
  \/ Reconcile
  \/ UserChangeClass
  \/ UserDelete
  \/ ProviderProgress
  \/ OtherRelease

SpecHeld == InitHeld /\ [][NextHeld]_vars

\* ------------------------------------------------------------------------
\* Convergence of a managed Gateway
\* ------------------------------------------------------------------------
\* A managed Gateway with a valid spec and routes, in whatever status earlier
\* passes left it short of Programmed=True, before the event of its creation
\* or change is handled.
InitLive ==
  /\ \E fins \in {{}, {GW_FINALIZER}},
        accepted \in {NoCond, Cond("True", "Accepted"), Cond("False", "InvalidTLS"),
                      Cond("False", "InvalidGateway")},
        programmed \in {NoCond, Cond("False", "Created"), Cond("False", "SyncFailed"),
                        Cond("False", "NoLongerManaged")} :
       gw = [NewGateway("sc", "tls") EXCEPT !.finalizers = fins, !.accepted = accepted,
                                            !.programmed = programmed]
  /\ lbs \in {{}, {[id |-> 0, label |-> OtherUID, status |-> LB_ACTIVE_STATUS]}}
  /\ pass = NoPass
  /\ unit = NoUnit
  /\ certs = {}
  /\ gc = NoClass

\* The outcomes of a pass in which every cluster and provider call succeeds.
SuccessfulResults(o, all) ==
  {r \in ReconcileResults(o, all, GatewayClassName) : ~r.c.failed /\ r.err = "none"}

\* The same, worked out once for the Gateways and provider states of a
\* convergence: the Gateway and the provider before the pass, and after it
\* the stored Gateway, the provider and the record of the pass.
SuccessfulPasses ==
  LET gateways ==
        {[NewGateway("sc", "tls") EXCEPT !.finalizers = fins, !.accepted = accepted,
                                         !.programmed = programmed, !.addresses = addresses]
           : fins \in {{}, {GW_FINALIZER}},
             accepted \in {NoCond, Cond("True", "Accepted"), Cond("False", "InvalidTLS"),
                           Cond("False", "InvalidGateway")},
             programmed \in {NoCond, Cond("False", "Created"), Cond("False", "SyncFailed"),
                             Cond("False", "NoLongerManaged"), Cond("True", "Programmed")},
             addresses \in {<<>>, ExternalAddresses(1)}}
      stores ==
        {other \cup own
           : other \in {{}, {[id |-> 0, label |-> OtherUID, status |-> LB_ACTIVE_STATUS]}},
             own \in {{}} \cup {{[id |-> 1, label |-> GwUID, status |-> st]}
                                  : st \in {"pending", LB_ACTIVE_STATUS}}}
  IN  UNION {{<<o, all, Stored(r.c.st), r.c.lbs, PassOf(o, all, r)>>
                 : r \in SuccessfulResults(o, all)}
               : o \in gateways, all \in stores}

\* Reconcile is invoked for the first event of the Gateway and then as often
\* as the last pass asked for with ctrl.Result{RequeueAfter: ...}.
Invoked == ~pass.ran \/ pass.requeueAfter > 0

\* A pass in which every cluster and provider call succeeds.
LivePass ==
  /\ Invoked
  /\ \E p \in SuccessfulPasses :
       /\ p[1] = gw /\ p[2] = lbs
       /\ gw' = p[3]
       /\ lbs' = p[4]
       /\ pass' = p[5]
       /\ UNCHANGED aux

\* The pass among those that writes Programmed=True.
ProgrammingPass == LivePass /\ gw'.programmed = Cond("True", "Programmed")

\* The provider finishes the load balancer of the Gateway.
ProviderActivates ==
  /\ \E lb \in lbs :
       /\ lb.label = GwUID /\ lb.status # LB_ACTIVE_STATUS
       /\ lbs' = (lbs \ {lb}) \cup {[lb EXCEPT !.status = LB_ACTIVE_STATUS]}
  /\ UNCHANGED <<gw, pass, aux>>

NextLive ==
  \/ LivePass
  \/ ProviderActivates

\* Every pass asked for is run, the provider finishes a load balancer it
\* holds, and it does not answer every update of an active load balancer
\* with a status that is not active.
SpecLive ==
  /\ InitLive /\ [][NextLive]_vars
  /\ WF_vars(LivePass) /\ WF_vars(ProviderActivates) /\ SF_vars(ProgrammingPass)

\* ------------------------------------------------------------------------
\* The topology builder on its own
\* ------------------------------------------------------------------------
\* Sequences over S of length at most n.
RECURSIVE SeqsUpTo(_, _)
SeqsUpTo(S, n) ==
  IF n = 0 THEN {<<>>}
  ELSE LET shorter == SeqsUpTo(S, n - 1)
       IN  shorter \cup {Append(q, x) : q \in shorter, x \in S}

\* Listener lists a build is run on.
ListenerLists ==
  {ListenersOf("tls"),
   <<Listener("https", "tls.io", "HTTPS", 443, "All"),
     Listener("http", "idle.io", "HTTP", 80, "All")>>,
   <<Listener("any", Nil, "HTTP", 80, "All"),
     [Listener("wild", "*.io", "HTTPS", 443, "Selector") EXCEPT
        !.MatchLabels = [k \in {"team"} |-> "edge"]]>>,
   <<Listener("a", "tls.io", "HTTP", 80, "All"), Listener("a", "tls.io", "HTTP", 8080, "All")>>,
   <<Listener("any", Nil, "HTTP", 80, "All"), Listener("site", "tls.io", "HTTP", 80, "All")>>}

\* HTTPRoutes the List of a build may return.
RouteItems ==
  {HTTPRoute(ns, name, <<ParentRef(GwName, Nil)>>, hostnames, rules)
     : ns \in {"ns-a", "ns-b"}, name \in {"web", "api"},
       hostnames \in {<<"tls.io">>, <<"idle.io">>, <<"tls.io", "idle.io">>},
       rules \in {<<>>, <<Rule(<<BackendRef("svc")>>)>>, <<Rule(<<BackendRef("clusterip")>>)>>}}
    \cup {HTTPRoute("ns-a", "detached", <<ParentRef("other-gw", Nil)>>, <<"tls.io">>,
                    <<Rule(<<BackendRef("svc")>>)>>)}

InitBuild ==
  /\ gw = NewGateway("sc", "tls")
  /\ lbs = {}
  /\ pass = NoPass
  /\ unit = NoUnit
  /\ certs = {}
  /\ gc = NoClass

\* buildGatewayInfo is run on a Gateway and the routes of the cluster.
Build ==
  /\ unit = NoUnit
  /\ \E ls \in ListenerLists, routes \in SeqsUpTo(RouteItems, MaxRoutes) :
       unit' = [op |-> "buildGatewayInfo", listeners |-> ls, routes |-> routes,
                out |-> BuildVHosts(TheGateway, ls, routes, Cluster)]
  /\ UNCHANGED <<gw, lbs, pass, certs, gc>>

NextBuild == Build

SpecBuild == InitBuild /\ [][NextBuild]_vars

\* ------------------------------------------------------------------------
\* The TLS synchronizer on its own
\* ------------------------------------------------------------------------
\* The provider's certificates before the first call: ext-1 was uploaded by
\* hand, the others carry the label of the secret s1.
Certificate(id, label, fingerprint) ==
  [ID |-> id, Label |-> label, Sha1Fingerprint |-> fingerprint]

CertStores ==
  LET ext == Certificate("ext-1", "", "sha1:ext")
  IN  {{ext},
       {ext, Certificate("old-1", "s1", "sha1:leaf-A")},
       {ext, Certificate("old-1", "s1", "sha1:leaf-B"), Certificate("old-2", "s1", "sha1:old")}}

\* The resolver outputs EnsureTLS is called with.
TLSInfos ==
  LET one(info) == [h \in {"tls.io"} |-> info]
      two(a, b) == [h \in {"tls.io", "idle.io"} |-> IF h = "tls.io" THEN a ELSE b]
      s1A == TLSConfigInfo("", Secret("s1", <<"leaf-A">>))
      s1B == TLSConfigInfo("", Secret("s1", <<"leaf-B", "ca">>))
      s2B == TLSConfigInfo("", Secret("s2", <<"leaf-B">>))
  IN  {one(s1A), one(s1B), two(s1A, s1A), two(s1A, s2B),
       one(TLSConfigInfo("ext-1", NoSecret)), one(TLSConfigInfo("ext-gone", NoSecret)),
       one(TLSConfigInfo("", [Secret("s1", <<"leaf-A">>) EXCEPT !.HasKey = FALSE])),
       one(TLSConfigInfo("", [Secret("s1", <<>>) EXCEPT !.HasCrt = FALSE])),
       one(TLSConfigInfo("", Secret("s1", <<"junk">>))),
       one(TLSConfigInfo("", NoSecret)),
       [h \in {} |-> TLSConfigInfo("", NoSecret)]}

NoRun == [ran |-> FALSE, in |-> EmptyMap, res |-> EmptyMap, err |-> "none"]

Syncs == IF unit.op = "EnsureTLS" THEN unit.n ELSE 0

InitTLS ==
  /\ gw = NewGateway("sc", "tls")
  /\ lbs = {}
  /\ pass = NoPass
  /\ unit = NoUnit
  /\ certs \in CertStores
  /\ gc = NoClass

\* EnsureTLS is called; prev keeps the call before it.
TLSSync ==
  /\ Syncs < MaxSyncs
  /\ \E tlsInfo \in TLSInfos :
       \E r \in EnsureTLS(tlsInfo, certs) :
         /\ certs' = r.certs
         /\ unit' = [op |-> "EnsureTLS", n |-> Syncs + 1, in |-> tlsInfo, before |-> certs,
                     res |-> r.res, err |-> r.err, errHost |-> r.errHost, calls |-> r.calls,
                     prev |-> IF unit.op = "EnsureTLS"
                                THEN [ran |-> TRUE, in |-> unit.in, res |-> unit.res,
                                      err |-> unit.err]
                                ELSE NoRun]
  /\ UNCHANGED <<gw, lbs, pass, gc>>

NextTLS == TLSSync

SpecTLS == InitTLS /\ [][NextTLS]_vars

\* ------------------------------------------------------------------------
\* A pass and another writer of the Gateway's status
\* ------------------------------------------------------------------------
\* The status writes a pass makes through setGatewayStatusCondition
\* (gateway.go 126, 134, 139, 144, 152, 160): <<type, reason, status>>.
StatusWrites ==
  {<<"Accepted", "InvalidTLS", "False">>, <<"Accepted", "InvalidGateway", "False">>,
   <<"Accepted", "Accepted", "True">>, <<"Programmed", "SyncTLSFailed", "False">>,
   <<"Programmed", "SyncFailed", "False">>, <<"Programmed", "Created", "False">>}

\* What another writer of the status (a second instance of the controller,
\* an operator) may leave in the stored Gateway.
OtherWrite(o) ==
  ({[o EXCEPT !.programmed = Cond(st, "Other")] : st \in {"True", "False"}}
     \cup {[o EXCEPT !.accepted = Cond("False", "Other")],
           [o EXCEPT !.addresses = <<"203.0.113.9">>]}) \ {o}

\* The pass in flight: g is its in-memory Gateway, read the resourceVersion
\* it holds, version the resourceVersion of the stored Gateway, both counted
\* from the fetch.  Of its last status patch: before and after are the
\* stored Gateway around it, stale tells that the stored Gateway had moved on
\* from the version the pass held.
InFlight(g, read, version, n) ==
  [op |-> "Get", g |-> g, read |-> read, version |-> version, n |-> n,
   before |-> g, after |-> g, stale |-> FALSE, err |-> "none", what |-> ""]

InitRace ==
  /\ \E sp \in GwSpecs :
       gw = [NewGateway("sc", sp) EXCEPT !.finalizers = {GW_FINALIZER}]
  /\ lbs = {} /\ pass = NoPass /\ unit = NoUnit /\ certs = {} /\ gc = NoClass

\* r.Get at the head of Reconcile (gateway.go 75).
RaceFetch ==
  /\ unit = NoUnit
  /\ unit' = InFlight(gw, 0, 0, 0)
  /\ UNCHANGED <<gw, lbs, pass, certs, gc>>

\* The pass is between its fetch and its return.
Running == unit.op \in {"Get", "Status.Patch"}

\* Another writer changes the status while the pass is in flight.
RaceOtherWrite ==
  /\ Running /\ unit.version - unit.read < MaxWrites
  /\ \E o \in OtherWrite(gw) : gw' = o
  /\ unit' = [unit EXCEPT !.version = @ + 1]
  /\ UNCHANGED <<lbs, pass, certs, gc>>

\* The outcome p of a status patch of the pass in flight.
Patched(p, what) ==
  LET ok == p[2] = "none"
  IN  [op |-> "Status.Patch", g |-> p[1].g,
       read |-> IF ok THEN unit.version + 1 ELSE unit.read,
       version |-> IF ok THEN unit.version + 1 ELSE unit.version,
       n |-> unit.n + 1, before |-> gw, after |-> Stored(p[1].st),
       stale |-> unit.read # unit.version, err |-> p[2], what |-> what]

\* The pass in flight as a context on the stored Gateway as it is now.
RaceCtx == [NewCtx(unit.g, lbs) EXCEPT !.st = gw]

\* One setGatewayStatusCondition of the pass in flight.
RaceSetCondition ==
  /\ Running /\ unit.n < MaxPatches
  /\ \E w \in StatusWrites :
       \E p \in setGatewayStatusCondition(RaceCtx, w[1], w[2], w[3]) :
         /\ gw' = Stored(p[1].st)
         /\ unit' = Patched(p, w[1] \o "=" \o w[3] \o "/" \o w[2])
  /\ UNCHANGED <<lbs, pass, certs, gc>>

\* The patch of the addresses and Programmed=True (gateway.go 170-182).
RaceSetProgrammed ==
  /\ Running /\ unit.n < MaxPatches
  /\ LET orig == unit.g
         g2 == SetStatusCondition([orig EXCEPT !.addresses = ExternalAddresses(1)],
                                  "Programmed", Cond("True", "Programmed"))
     IN  \E p \in StatusPatch([RaceCtx EXCEPT !.g = g2], orig, "Programmed=True/Programmed") :
           /\ gw' = Stored(p[1].st)
           /\ unit' = Patched(p, "Programmed=True/Programmed")
  /\ UNCHANGED <<lbs, pass, certs, gc>>

\* The pass returns.
RaceReturn ==
  /\ Running
  /\ unit' = [unit EXCEPT !.op = "returned"]
  /\ UNCHANGED <<gw, lbs, pass, certs, gc>>

NextRace ==
  \/ RaceFetch
  \/ RaceOtherWrite
  \/ RaceSetCondition
  \/ RaceSetProgrammed
  \/ RaceReturn

SpecRace == InitRace /\ [][NextRace]_vars

\* ------------------------------------------------------------------------
\* The helpers of the topology builder on their own
\* ------------------------------------------------------------------------
\* Host names as character sequences: a wildcard sign, a dot and a letter.
HostNames == SeqsUpTo({"*", ".", "a"}, MaxHostLen)

InitHelpers == gw = Gone /\ lbs = {} /\ pass = NoPass /\ unit = NoUnit /\ certs = {} /\ gc = NoClass

\* One call of hostMatches.
Match ==
  /\ unit = NoUnit
  /\ \E listenerHost \in HostNames, routeHost \in HostNames :
       unit' = [op |-> "hostMatches", listenerHost |-> listenerHost,
                routeHost |-> routeHost, out |-> hostMatches(listenerHost, routeHost)]
  /\ UNCHANGED <<gw, lbs, pass, certs, gc>>

NextMatch == Match

SpecMatch == InitHelpers /\ [][NextMatch]_vars

\* ------------------------------------------------------------------------
\* The TLS resolver on its own
\* ------------------------------------------------------------------------
TLS_EXTERNAL_ID_KEY == "sc-certmgr-cert-id"

\* A nil *gatewayv1.GatewayTLSConfig.
NoTLSConfig == [Present |-> FALSE, Mode |-> Nil, Options |-> EmptyMap, CertificateRefs |-> <<>>]

\* gatewayv1.GatewayTLSConfig; a nil Options map is the empty map.
TLSConfig(mode, options, refs) ==
  [Present |-> TRUE, Mode |-> mode, Options |-> options, CertificateRefs |-> refs]

\* gatewayv1.SecretObjectReference
CertificateRef(kind, group, name) ==
  [Kind |-> kind, Group |-> group, Name |-> name, Namespace |-> Nil]

\* gatewayv1.Listener as the resolver reads it.
TLSListener(protocol, hostname, tls) ==
  [Protocol |-> protocol, Hostname |-> hostname, TLS |-> tls]

\* Mutant: the TLS mode is not looked at.
validateHTTPSListener_AnyMode(listener) ==
  IF listener.Protocol # "HTTPS" THEN "none"
  ELSE IF listener.Hostname = Nil \/ listener.Hostname = ""
    THEN "hostname must be specified for HTTPS protocol"
  ELSE IF ~listener.TLS.Present THEN "missing TLS config"
  ELSE "none"

\* validateHTTPSListener: the error, "none" for nil.
validateHTTPSListener(listener) ==
  IF listener.Protocol # "HTTPS" THEN "none"
  ELSE IF listener.Hostname = Nil \/ listener.Hostname = ""
    THEN "hostname must be specified for HTTPS protocol"
  ELSE IF ~listener.TLS.Present THEN "missing TLS config"
  ELSE IF listener.TLS.Mode = Nil \/ listener.TLS.Mode # "Terminate"
    THEN "TLS mode must be 'Terminate'"
  ELSE "none"

\* Mutant: the external id option is never taken.
hasExternalID_Never(options) == FALSE

\* id, ok := listener.TLS.Options[optKey]; ok && id != "" (gateway.go 488).
hasExternalID(options) ==
  TLS_EXTERNAL_ID_KEY \in DOMAIN options /\ options[TLS_EXTERNAL_ID_KEY] # ""

\* The test of a certificate reference (gateway.go 498).
isSecretRef(ref) ==
  (ref.Kind = Nil \/ ref.Kind = "Secret") /\ (ref.Group = Nil \/ ref.Group = "")

\* The state of the resolver's loop: the map built so far, the errors
\* collected (listener index and message), the Secret reads issued.
NewResolve == [err |-> "none", result |-> EmptyMap, errs |-> <<>>, gets |-> <<>>]

\* buildTLSInfo from listener i on: every outcome.  secrets are the Secrets
\* of the Gateway's namespace by name; a read of a Secret may fail.
RECURSIVE buildTLSInfoFrom(_, _, _, _)
buildTLSInfoFrom(specListeners, secrets, i, st) ==
  IF i > Len(specListeners)
    THEN {IF Len(st.errs) > 0 THEN [st EXCEPT !.err = "validation", !.result = EmptyMap]
          ELSE st}
  ELSE
    LET listener == specListeners[i]
        next(st2) == buildTLSInfoFrom(specListeners, secrets, i + 1, st2)
        invalid == validateHTTPSListener(listener)
    IN  IF listener.Protocol # "HTTPS" THEN next(st)
        ELSE IF invalid # "none" THEN next([st EXCEPT !.errs = Append(@, <<i, invalid>>)])
        ELSE IF hasExternalID(listener.TLS.Options)
          THEN next([st EXCEPT !.result =
                       Put(@, listener.Hostname,
                           TLSConfigInfo(listener.TLS.Options[TLS_EXTERNAL_ID_KEY], NoSecret))])
        ELSE
          LET valid == SelectSeq(listener.TLS.CertificateRefs, isSecretRef)
              secretName == IF Len(valid) = 0 THEN "" ELSE valid[1].Name
              get(answer) == [listener |-> i, name |-> secretName, answer |-> answer]
          IN  IF secretName = ""
                THEN next([st EXCEPT !.errs = Append(@, <<i, "no valid refs found">>)])
              ELSE {[st EXCEPT !.err = "secret", !.result = EmptyMap,
                               !.gets = Append(@, get(IF secretName \in DOMAIN secrets
                                                        THEN "error" ELSE "notfound"))]}
                     \cup (IF secretName \notin DOMAIN secrets THEN {}
                           ELSE next([st EXCEPT
                                        !.result = Put(@, listener.Hostname,
                                                       TLSConfigInfo("", secrets[secretName])),
                                        !.gets = Append(@, get("none"))]))

\* The Secrets of the Gateway's namespace.
Secrets == [n \in {"s1"} |-> Secret("s1", <<"leaf-A">>)]

\* TLS blocks of the listeners the resolver is run on.
TLSConfigs ==
  LET s1 == CertificateRef(Nil, Nil, "s1")
      cm == CertificateRef("ConfigMap", Nil, "cm")
      gone == CertificateRef("Secret", "", "gone")
      ext == CertificateRef("Secret", "example.com", "s1")
  IN  {NoTLSConfig, TLSConfig(Nil, EmptyMap, <<s1>>), TLSConfig("Passthrough", EmptyMap, <<s1>>)}
        \cup {TLSConfig("Terminate", options, refs)
                : options \in {EmptyMap, [k \in {TLS_EXTERNAL_ID_KEY} |-> ""],
                               [k \in {TLS_EXTERNAL_ID_KEY} |-> "ext-1"]},
                  refs \in {<<>>, <<s1>>, <<cm>>, <<cm, s1>>, <<gone>>, <<ext>>}}

\* Listeners the resolver is run on.
TLSListeners ==
  {TLSListener("HTTP", "idle.io", NoTLSConfig),
   TLSListener("HTTP", Nil, TLSConfig("Passthrough", EmptyMap, <<>>))}
    \cup {TLSListener("HTTPS", h, TLSConfig("Terminate", EmptyMap,
                                           <<CertificateRef(Nil, Nil, "s1")>>))
            : h \in {Nil, ""}}
    \cup {TLSListener("HTTPS", h, tls) : h \in {"tls.io", "idle.io"}, tls \in TLSConfigs}

\* One call of buildTLSInfo.
Resolve ==
  /\ unit = NoUnit
  /\ \E specListeners \in SeqsUpTo(TLSListeners, MaxListeners) :
       \E r \in buildTLSInfoFrom(specListeners, Secrets, 1, NewResolve) :
         unit' = [op |-> "buildTLSInfo", listeners |-> specListeners, err |-> r.err,
                  result |-> r.result, errs |-> r.errs, gets |-> r.gets]
  /\ UNCHANGED <<gw, lbs, pass, certs, gc>>

NextResolve == Resolve

SpecResolve == InitHelpers /\ [][NextResolve]_vars

\* ------------------------------------------------------------------------
\* The LB synchronizer on its own
\* ------------------------------------------------------------------------
\* types.VHostInfo values: with and without ports, with and without paths.
VHostInfos ==
  {[SSL |-> ssl, Ports |-> ports, Paths |-> paths]
     : ssl \in BOOLEAN, ports \in {<<>>, <<80>>},
       paths \in {<<>>, <<[Path |-> "/", Service |-> "svc", NodePort |-> 30080]>>,
                  <<[Path |-> "/", Service |-> "api", NodePort |-> 30081]>>}}

\* types.GatewayInfo values over at most two hosts.
GatewayInfos ==
  {[UID |-> GwUID, VHosts |-> m]
     : m \in UNION {[hs -> VHostInfos] : hs \in SUBSET {"tls.io", "idle.io"}}}

\* The provider before the call: no load balancer of the Gateway, a pending
\* one, an active one.
LBStores ==
  {{}} \cup {{[id |-> 1, label |-> GwUID, status |-> st]} : st \in {"pending", LB_ACTIVE_STATUS}}

InitLB ==
  /\ gw = Gone /\ pass = NoPass /\ unit = NoUnit /\ certs = {} /\ gc = NoClass
  /\ lbs \in LBStores

\* One call of EnsureLB.
LBSync ==
  /\ unit = NoUnit
  /\ \E gwInfo \in GatewayInfos, hostCertMap \in {EmptyMap, [h \in {"tls.io"} |-> "ext-1"]} :
       \E r \in EnsureLB(lbs, gwInfo, hostCertMap, TRUE) :
         /\ lbs' = r.lbs
         /\ unit' = [op |-> "EnsureLB", gwInfo |-> gwInfo, hostCertMap |-> hostCertMap,
                     before |-> lbs, listed |-> r.listed, listErr |-> r.listErr,
                     calls |-> r.calls, ret |-> r.ret, err |-> r.err,
                     translated |-> translateGatewayToLBInput(gwInfo, hostCertMap)]
  /\ UNCHANGED <<gw, pass, certs, gc>>

NextLB == LBSync

SpecLB == InitLB /\ [][NextLB]_vars

\* ------------------------------------------------------------------------
\* Node IP collection
\* ------------------------------------------------------------------------
NodeAddress(type, address) == [Type |-> type, Address |-> address]

\* The address the inner loop of getNodesIpList stops at: the first of the
\* node's list whose type is ExternalIP or InternalIP (gateway.go 530-535).
firstNodeIP(addresses) ==
  LET usable == {i \in DOMAIN addresses : addresses[i].Type \in {"ExternalIP", "InternalIP"}}
  IN  IF usable = {} THEN <<>>
      ELSE <<addresses[CHOOSE i \in usable : \A j \in usable : i <= j].Address>>

RECURSIVE collectNodeIPs(_, _)
collectNodeIPs(nodes, i) ==
  IF i > Len(nodes) THEN <<>>
  ELSE firstNodeIP(nodes[i]) \o collectNodeIPs(nodes, i + 1)

\* getNodesIpList: the List of the nodes may fail.
getNodesIpList(nodes) ==
  {[err |-> "error", nodeIPs |-> <<>>], [err |-> "none", nodeIPs |-> collectNodeIPs(nodes, 1)]}

\* Address lists of a node: up to three addresses, in any order.
NodeAddresses ==
  SeqsUpTo({NodeAddress("ExternalIP", "203.0.113.1"), NodeAddress("InternalIP", "10.0.0.1"),
            NodeAddress("Hostname", "node")}, 3)

\* getNodesIpList is run on the nodes of the cluster.
Nodes ==
  /\ unit = NoUnit
  /\ \E nodes \in SeqsUpTo(NodeAddresses, MaxNodes) :
       \E r \in getNodesIpList(nodes) :
         unit' = [op |-> "getNodesIpList", nodes |-> nodes, err |-> r.err,
                  nodeIPs |-> r.nodeIPs]
  /\ UNCHANGED <<gw, lbs, pass, certs, gc>>

NextNodes == Nodes

SpecNodes == InitHelpers /\ [][NextNodes]_vars

\* ------------------------------------------------------------------------
\* From the Gateway to the provider input
\* ------------------------------------------------------------------------
\* A listener of gw.Spec.Listeners with its TLS block, admitting routes of
\* all namespaces.
FullListener(name, hostname, protocol, port, tls) ==
  [Name |-> name, Hostname |-> hostname, Protocol |-> protocol, Port |-> port,
   From |-> "All", MatchLabels |-> EmptyMap, TLS |-> tls]

\* Listener lists of the Gateways whose provider input is built: HTTPS
\* listeners for a concrete host and for a wildcard pattern, each with the
\* Secret s1, next to HTTP listeners.
FullListenerLists ==
  LET terminate == TLSConfig("Terminate", EmptyMap, <<CertificateRef(Nil, Nil, "s1")>>)
      https(name, hostname, port) == FullListener(name, hostname, "HTTPS", port, terminate)
      http(name, hostname) == FullListener(name, hostname, "HTTP", 80, NoTLSConfig)
  IN  {<<https("https", "tls.io", 443)>>,
       <<https("wild", "*.io", 443)>>,
       <<http("http", "tls.io"), https("wild", "*.io", 443)>>,
       <<https("https", "tls.io", 443), http("http", "idle.io")>>,
       <<https("https", "idle.io", 443), https("wild", "*.io", 8443)>>}

\* Routes with a backend that resolves.
FullRoutes == {r \in RouteItems : r.Rules = <<Rule(<<BackendRef("svc")>>)>>}

\* Reconcile from buildTLSInfo to the input EnsureLB sends (gateway.go
\* 123-149, part_003 45-48), with no load balancer logic: every outcome of
\* the resolver and of EnsureTLS on a provider without certificates.
GatewayToInput ==
  /\ unit = NoUnit
  /\ \E ls \in FullListenerLists, routes \in SeqsUpTo(FullRoutes, MaxRoutes) :
       \E t \in buildTLSInfoFrom(ls, Secrets, 1, NewResolve) :
         \E e \in (IF t.err = "none" THEN EnsureTLS(t.result, {}) ELSE {NewRun({})}) :
           LET b == BuildVHosts(TheGateway, ls, routes, Cluster)
               gwInfo == [UID |-> GwUID, VHosts |-> b.VHosts]
               reached == t.err = "none" /\ b.err = "none" /\ e.err = "none"
           IN  unit' = [op |-> "translateGatewayToLBInput", listeners |-> ls,
                        routes |-> routes, tlsErr |-> t.err, tlsInfo |-> t.result,
                        out |-> b, syncErr |-> e.err, hostsCertIDMap |-> e.res,
                        reached |-> reached,
                        input |-> IF reached THEN translateGatewayToLBInput(gwInfo, e.res)
                                  ELSE NoInput]
  /\ UNCHANGED <<gw, lbs, pass, certs, gc>>

NextInput == GatewayToInput

SpecInput == InitHelpers /\ [][NextInput]_vars

\* ------------------------------------------------------------------------
\* The reverse-lookup mappers
\* ------------------------------------------------------------------------
\* One entry of the call trace of a mapper: a read of the cluster.
MapCall(op, key, answer) == [op |-> op, key |-> key, answer |-> answer]

\* A Gateway of the cluster as the mappers read it.
MappedGateway(className, listeners) == [className |-> className, Listeners |-> listeners]

\* Mutant: a Gateway is enqueued whatever the ownership check answers.
enqueued_Always(managed, err) == TRUE

\* The mappers go on to append only after err == nil and managed
\* (handlers.go 35-43, 91-99, 128-136).
enqueued(managed, err) == err = "none" /\ managed

\* The mapping so far: the requests and the reads issued.
NewMapping == [requests |-> <<>>, calls |-> <<>>]

\* r.isManagedGateway on a Gateway at hand: every outcome.
checkManaged(gateways, key) ==
  {[calls |-> <<MapCall("isManagedGateway", key, m[2])>>, take |-> enqueued(m[1], m[2])]
     : m \in isManagedGateway(gateways[key], GatewayClassName)}

\* r.Get of a parent Gateway, then r.isManagedGateway: every outcome.
lookupGateway(gateways, key) ==
  {[calls |-> <<MapCall("Get", key, IF key \in DOMAIN gateways THEN "error" ELSE "notfound")>>,
    take |-> FALSE]}
    \cup (IF key \notin DOMAIN gateways THEN {}
          ELSE {[calls |-> <<MapCall("Get", key, "none")>> \o c.calls, take |-> c.take]
                  : c \in checkManaged(gateways, key)})

\* getParentGatewayKeys
getParentGatewayKeys(route) ==
  LET isGateway(parent) == /\ ~(parent.Kind # Nil /\ parent.Kind # "Gateway")
                           /\ ~(parent.Group # Nil /\ parent.Group # GroupName)
      kept == SelectSeq(route.ParentRefs, isGateway)
  IN  [i \in DOMAIN kept |->
         <<IF kept[i].Namespace # Nil THEN kept[i].Namespace ELSE route.Namespace,
           kept[i].Name>>]

\* The loop over the parent keys of a route.  processed: the keys enqueued
\* before are skipped (the Service mapper's processedGateways).
RECURSIVE enqueueParents(_, _, _, _, _)
enqueueParents(gateways, keys, i, st, processed) ==
  IF i > Len(keys) THEN {st}
  ELSE IF processed /\ keys[i] \in Range(st.requests)
    THEN enqueueParents(gateways, keys, i + 1, st, processed)
  ELSE UNION {
    enqueueParents(gateways, keys, i + 1,
                   [requests |-> IF l.take THEN Append(st.requests, keys[i]) ELSE st.requests,
                    calls |-> st.calls \o l.calls], processed)
    : l \in lookupGateway(gateways, keys[i]) }

\* findGatewaysForHTTPRoute
findGatewaysForHTTPRoute(gateways, route) ==
  enqueueParents(gateways, getParentGatewayKeys(route), 1, NewMapping, FALSE)

\* routeReferencesService
routeReferencesService(route, service) ==
  \E i \in DOMAIN route.Rules : \E j \in DOMAIN route.Rules[i].BackendRefs :
    LET backendRef == route.Rules[i].BackendRefs[j]
        ns == IF backendRef.Namespace # Nil THEN backendRef.Namespace ELSE route.Namespace
    IN  /\ ~(backendRef.Group # Nil /\ backendRef.Group # "")
        /\ backendRef.Name = service.Name
        /\ ns = service.Namespace

\* The loop of findGatewaysForService over the routes listed.
RECURSIVE serviceRoutes(_, _, _, _, _)
serviceRoutes(gateways, routes, service, i, st) ==
  IF i > Len(routes) THEN {st}
  ELSE IF ~routeReferencesService(routes[i], service)
    THEN serviceRoutes(gateways, routes, service, i + 1, st)
  ELSE UNION {
    serviceRoutes(gateways, routes, service, i + 1, st2)
    : st2 \in enqueueParents(gateways, getParentGatewayKeys(routes[i]), 1, st, TRUE) }

\* findGatewaysForService: the List of the routes may fail.
findGatewaysForService(gateways, routes, service) ==
  {[NewMapping EXCEPT !.calls = <<MapCall("List", "HTTPRoute", "error")>>]}
    \cup serviceRoutes(gateways, routes, service, 1,
                       [NewMapping EXCEPT !.calls = <<MapCall("List", "HTTPRoute", "none")>>])

\* gatewayReferencesSecret: key is the Gateway's namespace and name.
gatewayReferencesSecret(key, g, secret) ==
  \E i \in DOMAIN g.Listeners :
    /\ g.Listeners[i].TLS.Present
    /\ \E j \in DOMAIN g.Listeners[i].TLS.CertificateRefs :
         LET certRef == g.Listeners[i].TLS.CertificateRefs[j]
             ns == IF certRef.Namespace # Nil THEN certRef.Namespace ELSE key[1]
         IN  certRef.Name = secret.Name /\ ns = secret.Namespace

\* The loop of findGatewaysForSecret over the Gateways listed.
RECURSIVE secretGateways(_, _, _, _, _)
secretGateways(gateways, keys, secret, i, st) ==
  IF i > Len(keys) THEN {st}
  ELSE IF ~gatewayReferencesSecret(keys[i], gateways[keys[i]], secret)
    THEN secretGateways(gateways, keys, secret, i + 1, st)
  ELSE UNION {
    secretGateways(gateways, keys, secret, i + 1,
                   [requests |-> IF c.take THEN Append(st.requests, keys[i]) ELSE st.requests,
                    calls |-> st.calls \o c.calls])
    : c \in checkManaged(gateways, keys[i]) }

\* The keys Gateways can have in the cluster of the mappers, in the order a
\* List returns them.
GatewayKeys == <<<<"ns-a", "gw">>, <<"ns-a", "gw2">>, <<"ns-b", "gw">>>>

\* findGatewaysForSecret: the List of the Gateways of the Secret's namespace
\* may fail.
findGatewaysForSecret(gateways, secret) ==
  LET inNamespace(key) == key \in DOMAIN gateways /\ key[1] = secret.Namespace
  IN  {[NewMapping EXCEPT !.calls = <<MapCall("List", "Gateway", "error")>>]}
        \cup secretGateways(gateways, SelectSeq(GatewayKeys, inNamespace), secret, 1,
                            [NewMapping EXCEPT !.calls = <<MapCall("List", "Gateway", "none")>>])

\* Clusters of Gateways: under each key no Gateway or one of a class, with
\* the listeners given.
GatewaySets(classes, listenerLists) ==
  UNION {[keys -> {MappedGateway(cn, ls) : cn \in classes, ls \in listenerLists}]
           : keys \in SUBSET Range(GatewayKeys)}

\* Parent references of the routes the mappers are run on.
MappedParentRefs ==
  {[ParentRef(name, Nil) EXCEPT !.Namespace = ns]
     : name \in {"gw", "gw2"}, ns \in {Nil, "ns-a", "ns-b"}}
    \cup {[ParentRef("gw", Nil) EXCEPT !.Kind = "Service"]}

\* Routes the Service mapper lists.
MappedRoutes ==
  {HTTPRoute(ns, "web", <<parent>>, <<"tls.io">>, <<Rule(<<backend>>)>>)
     : ns \in {"ns-a", "ns-b"},
       parent \in {ParentRef("gw", Nil), [ParentRef("gw", Nil) EXCEPT !.Namespace = Nil]},
       backend \in {BackendRef("svc"), [BackendRef("svc") EXCEPT !.Namespace = "ns-a"],
                    BackendRef("clusterip")}}

\* Listener lists of the Gateways the Secret mapper lists.
MappedListeners ==
  LET ref(ns) == [CertificateRef(Nil, Nil, "s1") EXCEPT !.Namespace = ns]
      https(tls) == TLSListener("HTTPS", "tls.io", tls)
  IN  {<<>>, <<https(NoTLSConfig)>>,
       <<https(TLSConfig("Terminate", EmptyMap, <<ref(Nil)>>))>>,
       <<https(NoTLSConfig), https(TLSConfig("Terminate", EmptyMap, <<ref("ns-b")>>))>>}

\* A mapper is called on the object of a watch event.
MapRoute ==
  /\ unit = NoUnit
  /\ \E gateways \in GatewaySets({"sc", "sc-alt", "foreign"}, {<<>>}),
        ns \in {"ns-a", "ns-b"}, parents \in SeqsUpTo(MappedParentRefs, MaxParents) :
       LET route == HTTPRoute(ns, "web", parents, <<"tls.io">>, <<>>)
       IN  \E r \in findGatewaysForHTTPRoute(gateways, route) :
             unit' = [op |-> "findGatewaysForHTTPRoute", gateways |-> gateways,
                      obj |-> route, requests |-> r.requests, calls |-> r.calls]
  /\ UNCHANGED <<gw, lbs, pass, certs, gc>>

MapService ==
  /\ unit = NoUnit
  /\ \E gateways \in GatewaySets({"sc", "foreign"}, {<<>>}),
        routes \in SeqsUpTo(MappedRoutes, MaxRoutes), ns \in {"ns-a", "ns-b"} :
       LET service == [Namespace |-> ns, Name |-> "svc"]
       IN  \E r \in findGatewaysForService(gateways, routes, service) :
             unit' = [op |-> "findGatewaysForService", gateways |-> gateways,
                      obj |-> service, requests |-> r.requests, calls |-> r.calls]
  /\ UNCHANGED <<gw, lbs, pass, certs, gc>>

MapSecret ==
  /\ unit = NoUnit
  /\ \E gateways \in GatewaySets({"sc", "foreign"}, MappedListeners),
        ns \in {"ns-a", "ns-b"}, name \in {"s1", "s2"} :
       LET secret == [Namespace |-> ns, Name |-> name]
       IN  \E r \in findGatewaysForSecret(gateways, secret) :
             unit' = [op |-> "findGatewaysForSecret", gateways |-> gateways,
                      obj |-> secret, requests |-> r.requests, calls |-> r.calls]
  /\ UNCHANGED <<gw, lbs, pass, certs, gc>>

NextMap ==
  \/ MapRoute
  \/ MapService
  \/ MapSecret

SpecMap == InitHelpers /\ [][NextMap]_vars

\* ------------------------------------------------------------------------
\* The GatewayClass reconciler
\* ------------------------------------------------------------------------
\* One entry of the call trace of a GatewayClass pass.
ClassCall(op, answer, arg) == [op |-> op, answer |-> answer, arg |-> arg]

\* Mutant: the controller name of the class is not compared.
otherController_Never(c) == FALSE

\* string(gc.Spec.ControllerName) != r.ControllerName
otherController(c) == c.controllerName # ControllerName

\* r.Status().Update(ctx, &gc): the stored status becomes the in-memory one,
\* or the API server refuses the update.
StatusUpdate(st, g) ==
  {[gc |-> [st EXCEPT !.accepted = g.accepted], err |-> "none"],
   [gc |-> st, err |-> "error"]}

\* GatewayClassReconciler.Reconcile on the stored class st: every result.
GatewayClassReconcile(st) ==
  IF ~st.exists
    THEN {[gc |-> st, calls |-> <<ClassCall("Get", "notfound", "")>>, err |-> "none"]}
  ELSE {[gc |-> st, calls |-> <<ClassCall("Get", "error", "")>>, err |-> "error"]} \cup
    (LET got == <<ClassCall("Get", "none", "")>>
     IN  IF otherController(st) THEN {[gc |-> st, calls |-> got, err |-> "none"]}
         ELSE LET g == [st EXCEPT !.accepted = Cond("True", "Accepted")]
              IN  {[gc |-> u.gc,
                    calls |-> Append(got, ClassCall("Status.Update", u.err,
                                                    "Accepted=True/Accepted")),
                    err |-> u.err] : u \in StatusUpdate(st, g)})

InitClass ==
  /\ gw = Gone /\ lbs = {} /\ pass = NoPass /\ unit = NoUnit /\ certs = {}
  /\ gc = NoClass

\* One pass of the GatewayClass reconciler on the key.
ClassReconcile ==
  /\ \E r \in GatewayClassReconcile(gc) :
       /\ gc' = r.gc
       /\ unit' = [op |-> "GatewayClassReconciler.Reconcile", pre |-> gc, post |-> r.gc,
                   calls |-> r.calls, err |-> r.err]
  /\ UNCHANGED <<gw, lbs, pass, certs>>

\* The user creates a GatewayClass.
ClassCreate ==
  /\ ~gc.exists
  /\ \E n \in {"sc", "sc-alt", "foreign"} : gc' = GatewayClass(n, GatewayClasses[n])
  /\ UNCHANGED <<gw, lbs, pass, unit, certs>>

\* The user deletes the GatewayClass.
ClassDelete ==
  /\ gc.exists /\ gc.finalizers = {}
  /\ gc' = NoClass
  /\ UNCHANGED <<gw, lbs, pass, unit, certs>>

\* Another client writes the class: the API server's default condition, the
\* condition of another controller, or the finalizer that guards a class in
\* use.
ClassOtherWrite ==
  /\ gc.exists
  /\ \/ \E c \in {Cond("Unknown", "Pending"), Cond("False", "Other")} :
          gc.accepted # c /\ gc' = [gc EXCEPT !.accepted = c]
     \/ gc' = [gc EXCEPT !.finalizers =
                  IF @ = {} THEN {"gateway-exists-finalizer.gateway.networking.k8s.io"}
                  ELSE {}]
  /\ UNCHANGED <<gw, lbs, pass, unit, certs>>

NextClass ==
  \/ ClassReconcile
  \/ ClassCreate
  \/ ClassDelete
  \/ ClassOtherWrite

SpecClass == InitClass /\ [][NextClass]_vars

\* Label maps over two keys; a key is absent, empty or set.
LabelMaps ==
  {[k \in keys |-> val[k]] : keys \in SUBSET {"team", "env"},
                             val \in [{"team", "env"} -> {"", "edge"}]}

\* One call of isRouteNamespaceAllowed.
Allowed ==
  /\ unit = NoUnit
  /\ \E from \in {"All", "Same", "Selector", "None"}, selector \in LabelMaps,
        listenerNS \in {"ns-a", "ns-b"}, routeNS \in {"ns-a", "ns-b"},
        nsLabels \in LabelMaps :
       unit' = [op |-> "isRouteNamespaceAllowed", AllowedFrom |-> from,
                Selector |-> selector, listenerNS |-> listenerNS, routeNS |-> routeNS,
                nsLabels |-> nsLabels,
                out |-> isRouteNamespaceAllowed([AllowedFrom |-> from, Selector |-> selector],
                                                listenerNS, routeNS, nsLabels)]
  /\ UNCHANGED <<gw, lbs, pass, certs, gc>>

NextAllowed == Allowed

SpecAllowed == InitHelpers /\ [][NextAllowed]_vars

TypeOK ==
  /\ gw.exists \in BOOLEAN
  /\ gw.exists => ~(gw.deleting /\ gw.finalizers = {})
  /\ \A l \in lbs : l.id \in 0..MaxLB

\* ------------------------------------------------------------------------
\* Reading the record of a pass
\* ------------------------------------------------------------------------
CallsTo(op) == {i \in DOMAIN pass.calls : pass.calls[i].op = op}

NoWrites == CallsTo("lb.create") = {} /\ CallsTo("lb.update") = {} /\ CallsTo("lb.delete") = {}

ActiveStatuses == {"active", "Active"}

\* The spec's topology translates to at least one vhost zone.
NonEmptyTopology(spec) ==
  \E h \in DOMAIN VHostsOf(spec) :
    Len(VHostsOf(spec)[h].Ports) > 0 /\ Len(VHostsOf(spec)[h].Paths) > 0

OwnLBs == {l \in lbs : l.label = GwUID}

\* ------------------------------------------------------------------------
\* Claims
\* ------------------------------------------------------------------------

\* C1: when EnsureLB's list returns exactly one load balancer for the
\* Gateway's UID and its status is not "active" in any letter case, EnsureLB
\* issues neither a create nor an update, returns no error, and returns a
\* result that carries only that status (no id, no addresses), whatever the
\* topology and the certificate map are.
C1_NonActiveOnlyReported ==
  \A l \in pass.ens.listed :
    (pass.ens.called /\ pass.ens.listErr = "none" /\ pass.ens.listed = {l}
       /\ l.status \notin ActiveStatuses)
    => /\ CallsTo("lb.create") = {} /\ CallsTo("lb.update") = {}
       /\ pass.ens.err = "none"
       /\ pass.ens.ret = [id |-> -1, status |-> l.status, addrs |-> <<>>]
       /\ ~pass.lbsChanged

\* A pass whose EnsureLB found one pending load balancer while the Gateway's
\* topology was empty.
C1_Witness ==
  /\ pass.ens.called /\ pass.pre.spec = "noroutes"
  /\ \E l \in pass.ens.listed : pass.ens.listed = {l} /\ l.status = "pending"
  /\ pass.ens.ret.status = "pending"

C3_SeveralIsFatal ==
  /\ (pass.ens.called /\ Cardinality(pass.ens.listed) > 1)
       => pass.ens.err # "none" /\ NoWrites /\ ~pass.lbsChanged
  /\ (pass.del.called /\ Cardinality(pass.del.listed) > 1)
       => pass.del.err # "none" /\ NoWrites /\ ~pass.lbsChanged

\* A cleanup that found two load balancers and gave up.
C3_Witness ==
  /\ pass.del.called /\ Cardinality(pass.del.listed) = 2
  /\ pass.del.err = "multiple" /\ pass.err = "multiple"
  /\ Cardinality(OwnLBs) = 2

\* C4: as long as only Reconcile passes create load balancers for the
\* Gateway (first sync, requeues, spec and class changes, deletion) and the
\* list reflects every completed create and delete, the provider never holds
\* more than one load balancer labelled with the Gateway's UID.
C4_AtMostOneLB == Cardinality(OwnLBs) <= 1

\* A later pass that found the load balancer of an earlier pass and updated
\* it instead of creating a second one.
C4_Witness ==
  /\ pass.ens.called /\ Cardinality(pass.ens.listed) = 1
  /\ CallsTo("lb.update") # {} /\ pass.ens.err = "none"
  /\ Cardinality(OwnLBs) = 1

ProgrammedTrue == Cond("True", "Programmed")
ProgrammedCreated == Cond("False", "Created")

PatchesOf(what) == {i \in CallsTo("Status.Patch") : pass.calls[i].arg = what}

Persisted(what) == \E i \in PatchesOf(what) : pass.calls[i].sel = "ok"

ReturnedActive ==
  pass.ens.called /\ pass.ens.err = "none" /\ pass.ens.ret.status \in ActiveStatuses

ReturnedNonActive ==
  pass.ens.called /\ pass.ens.err = "none" /\ pass.ens.ret.status \notin ActiveStatuses

\* C5: a pass writes Programmed=True only when its EnsureLB returned a load
\* balancer whose status is active, and the write carries the load
\* balancer's external addresses; the stored condition turns True in no
\* other pass.  In a pass where the returned status is not active the pass
\* sets Programmed to False with reason Created, never to True: that is the
\* condition on the Gateway the pass holds when it returns, and the stored
\* one once the pass's status patch is persisted.
C5_ProgrammedOnlyWhenActive ==
  pass.ran =>
    /\ PatchesOf("Programmed=True/Programmed") # {} => ReturnedActive
    /\ (gw.exists /\ gw.programmed = ProgrammedTrue /\ pass.pre.programmed # ProgrammedTrue)
         => ReturnedActive
    /\ Persisted("Programmed=True/Programmed")
         => gw.programmed = ProgrammedTrue /\ gw.addresses = pass.ens.ret.addrs
              /\ gw.addresses = <<"203.0.113.10">>
    /\ ReturnedNonActive
         => /\ pass.local.programmed = ProgrammedCreated
            /\ PatchesOf("Programmed=True/Programmed") = {}
            /\ PatchesOf("Programmed=False/Created") # {}
            /\ Persisted("Programmed=False/Created") => gw.programmed = ProgrammedCreated

\* The pass that created the load balancer and got it back pending.
C5_Witness ==
  /\ CallsTo("lb.create") # {} /\ pass.ens.ret.status = "pending"
  /\ gw.programmed = ProgrammedCreated /\ gw.addresses = <<>>
  /\ pass.requeueAfter = 10

\* C6: a pass asks for re-invocation after 10 seconds, with a nil error,
\* exactly when EnsureTLS failed, EnsureLB failed, or EnsureLB returned a
\* load balancer that is not active; every other pass asks for no delay.
C6_RequeueExactlyOnSyncTrouble ==
  pass.ran =>
    LET retry == \/ pass.tls.called /\ pass.tls.err # "none"
                 \/ pass.ens.called /\ pass.ens.err # "none"
                 \/ ReturnedNonActive
    IN  /\ retry => pass.requeueAfter = 10 /\ pass.err = "none"
        /\ ~retry => pass.requeueAfter = 0

\* A pass whose EnsureLB failed on several load balancers and asked to be
\* run again.
C6_Witness ==
  /\ pass.ens.called /\ pass.ens.err = "multiple"
  /\ pass.requeueAfter = 10 /\ pass.err = "none"

Unmanaged(className) ==
  \/ GatewayClasses[className] = ""
  \/ GatewayClasses[className] # ControllerName
  \/ className # "sc"

\* C7: a pass on a Gateway whose class is missing, names another controller
\* or fails the class-name restriction issues DeleteLB for the Gateway's UID,
\* leaves the Gateway without the cleanup finalizer and with Programmed=False
\* / NoLongerManaged, and calls neither EnsureTLS nor EnsureLB.  Stated for
\* the passes in which no cluster or provider call failed and the label is
\* not ambiguous.
C7_UnmanagedIsCleanedUp ==
  (pass.ran /\ pass.pre.exists /\ ~pass.pre.deleting /\ Unmanaged(pass.pre.className)
     /\ ~pass.failed /\ Cardinality(pass.del.listed) <= 1)
  => /\ \E i \in CallsTo("DeleteLB") : pass.calls[i].sel = GwUID
     /\ CallsTo("EnsureTLS") = {} /\ CallsTo("EnsureLB") = {}
     /\ GW_FINALIZER \notin gw.finalizers
     /\ gw.programmed = Cond("False", "NoLongerManaged")

\* C8: in every pass EnsureLB is called only after EnsureTLS returned
\* without error in that pass; when EnsureTLS fails, EnsureLB is not called
\* and the pass sets Programmed=False / SyncTLSFailed.
C8_TLSBeforeLB ==
  pass.ran =>
    /\ \A i \in CallsTo("EnsureLB") :
         pass.tls.err = "none" /\ \E j \in CallsTo("EnsureTLS") : j < i
    /\ (pass.tls.called /\ pass.tls.err # "none")
         => /\ CallsTo("EnsureLB") = {} /\ ~pass.ens.called
            /\ CallsTo("lb.list") = {} /\ NoWrites
            /\ pass.local.programmed = Cond("False", "SyncTLSFailed")
            /\ PatchesOf("Programmed=False/SyncTLSFailed") # {}
            /\ Persisted("Programmed=False/SyncTLSFailed")
                 => gw.programmed = Cond("False", "SyncTLSFailed")

\* A failed TLS sync on a Gateway that has its load balancer already: the
\* load balancer is not touched.
C8_Witness ==
  /\ pass.tls.called /\ pass.tls.err = "error"
  /\ gw.programmed = Cond("False", "SyncTLSFailed")
  /\ OwnLBs # {} /\ CallsTo("lb.list") = {}

SyncCalls ==
  CallsTo("buildTLSInfo") \cup CallsTo("buildGatewayInfo") \cup CallsTo("EnsureTLS")
    \cup CallsTo("EnsureLB") \cup CallsTo("lb.list") \cup CallsTo("lb.create")
    \cup CallsTo("lb.update")

\* C9: in a pass on a managed Gateway the stored Gateway carries the cleanup
\* finalizer before any validation, EnsureTLS or EnsureLB call; when adding
\* the finalizer fails, the pass returns that error and makes no provider
\* call.  So every load balancer the controller creates is created for a
\* Gateway that carries the finalizer at that moment.
C9_FinalizerBeforeSync ==
  pass.ran =>
    /\ \A i \in SyncCalls \ CallsTo("lb.list") : pass.calls[i].fin
    /\ \A i \in CallsTo("lb.list") : pass.ens.called => pass.calls[i].fin
    /\ (~pass.del.called /\ \E i \in CallsTo("Patch") : pass.calls[i].sel = "failed")
         => pass.err # "none" /\ SyncCalls = {} /\ NoWrites /\ pass.requeueAfter = 0

\* The first pass on a new Gateway: the finalizer is added, then the load
\* balancer is created.
C9_Witness ==
  /\ GW_FINALIZER \notin pass.pre.finalizers
  /\ \E i \in CallsTo("Patch"), j \in CallsTo("lb.create") :
       i < j /\ pass.calls[i].sel = "ok" /\ pass.calls[j].fin
  /\ GW_FINALIZER \in gw.finalizers /\ OwnLBs # {}

FinalizerRemoved == GW_FINALIZER \in pass.pre.finalizers /\ GW_FINALIZER \notin gw.finalizers

\* C10: the cleanup finalizer leaves a Gateway only in a pass in which
\* DeleteLB for the Gateway's UID returned success before the patch; when
\* DeleteLB returns an error (or does not return), the finalizer stays and
\* the error is what the pass returns.
C10_FinalizerRemovedAfterDelete ==
  pass.ran =>
    /\ FinalizerRemoved
         => /\ pass.del.called /\ pass.del.err = "none"
            /\ \E i \in CallsTo("DeleteLB"), j \in CallsTo("Patch") :
                 i < j /\ pass.calls[i].sel = GwUID /\ pass.calls[j].sel = "ok"
    /\ (pass.del.called /\ pass.del.err # "none")
         => /\ pass.err = pass.del.err
            /\ CallsTo("Patch") = {}
            /\ GW_FINALIZER \in pass.pre.finalizers => GW_FINALIZER \in gw.finalizers

\* The pass on a deleted Gateway that deleted its load balancer and then
\* released the Gateway.
C10_Witness ==
  /\ pass.pre.deleting /\ FinalizerRemoved
  /\ CallsTo("lb.delete") # {} /\ pass.del.err = "none" /\ pass.lbsChanged
  /\ ~gw.exists /\ OwnLBs = {}

ValidationCalls == CallsTo("buildTLSInfo") \cup CallsTo("buildGatewayInfo")

InvalidReason(op) == IF op = "buildTLSInfo" THEN "InvalidTLS" ELSE "InvalidGateway"

\* C11: when TLS resolution or the topology build fails in a pass on a
\* managed Gateway, the pass sets Accepted=False with reason InvalidTLS or
\* InvalidGateway respectively, calls none of EnsureTLS, EnsureLB and
\* DeleteLB (and so nothing at the provider), and returns no error and no
\* re-invocation delay.
C11_InvalidStopsBeforeProvider ==
  pass.ran =>
    \A i \in ValidationCalls :
      pass.calls[i].sel # "none"
      => LET reason == InvalidReason(pass.calls[i].op)
         IN  /\ pass.local.accepted = Cond("False", reason)
             /\ PatchesOf("Accepted=False/" \o reason) # {}
             /\ Persisted("Accepted=False/" \o reason) => gw.accepted = Cond("False", reason)
             /\ CallsTo("EnsureTLS") = {} /\ CallsTo("EnsureLB") = {}
             /\ CallsTo("DeleteLB") = {} /\ CallsTo("lb.list") = {}
             /\ NoWrites /\ ~pass.lbsChanged
             /\ pass.err = "none" /\ pass.requeueAfter = 0

\* A topology build that fails on a Gateway that has its load balancer
\* already: Accepted turns False and the load balancer is left as it is.
C11_Witness ==
  /\ \E i \in CallsTo("buildGatewayInfo") : pass.calls[i].sel = "error"
  /\ pass.pre.spec = "badroutes"
  /\ gw.accepted = Cond("False", "InvalidGateway")
  /\ OwnLBs # {} /\ pass.requeueAfter = 0

Built == unit.op = "buildGatewayInfo"

SharedHostname(r1, r2) ==
  \E i \in DOMAIN r1.Hostnames, j \in DOMAIN r2.Hostnames : r1.Hostnames[i] = r2.Hostnames[j]

\* C12: when two distinct HTTPRoutes attached to the Gateway (distinct by
\* namespace or by name) declare the same hostname, buildGatewayInfo fails,
\* which is what turns Accepted to False with reason InvalidGateway.
C12_SharedHostnameFails ==
  Built =>
    \A i, j \in DOMAIN unit.routes :
      LET r1 == unit.routes[i]
          r2 == unit.routes[j]
      IN  (/\ i < j
           /\ r1.Namespace # r2.Namespace \/ r1.Name # r2.Name
           /\ isRouteAttachedToGateway(r1, TheGateway)
           /\ isRouteAttachedToGateway(r2, TheGateway)
           /\ SharedHostname(r1, r2))
          => unit.out.err # "none"

Synced == unit.op = "EnsureTLS"

CertCallsTo(op) == {i \in DOMAIN unit.calls : unit.calls[i].op = op}

\* The hosts of a resolver output that are served from a secret.
SecretHosts(tlsInfo) == {h \in DOMAIN tlsInfo : tlsInfo[h].ExternalID = ""}

\* C13: when EnsureTLS is called twice in a row with the same secrets (same
\* UID, same certificate bytes) and the first call succeeded, the second call
\* issues neither a create nor an update, leaves the provider's certificates
\* as they are, and returns, when its list succeeds, the certificate ids of
\* the first call.
C13_SecondSyncIsNoOp ==
  (Synced /\ unit.prev.ran /\ unit.prev.err = "none" /\ unit.prev.in = unit.in
     /\ SecretHosts(unit.in) = DOMAIN unit.in)
  => /\ CertCallsTo("cert.create") = {} /\ CertCallsTo("cert.update") = {}
     /\ certs = unit.before
     /\ unit.err = "none" => unit.res = unit.prev.res

\* Two calls for two hosts, the first of which created a certificate for
\* each secret; the second returns the same two ids.
C13_Witness ==
  /\ Synced /\ unit.prev.ran /\ unit.prev.err = "none" /\ unit.prev.in = unit.in
  /\ DOMAIN unit.in = {"tls.io", "idle.io"}
  /\ unit.err = "none" /\ unit.res = unit.prev.res
  /\ unit.res["tls.io"] = "cert-of-s1" /\ unit.res["idle.io"] = "cert-of-s2"
  /\ Len(unit.calls) = 2

CertIDsOf(all) == {c.ID : c \in all}

\* The certificates the provider held for the secret of host h before the
\* call.
LabelledBefore(h) == {c \in unit.before : c.Label = unit.in[h].Secret.UID}

FingerprintOf(h) == getPemFingerprint(splitCerts(unit.in[h].Secret.Crt).primary)

\* C14: in a call for one secret whose fingerprint no certificate labelled
\* with the secret's UID carries while such certificates exist, EnsureTLS
\* issues one update on the id of such a certificate, no create, and returns
\* that id; in every call a create is issued only for a label no certificate
\* of the provider carries at that moment; and no certificate ever leaves
\* the provider.
C14_UpdateInPlace ==
  Synced =>
    /\ \A h \in DOMAIN unit.in :
         (/\ DOMAIN unit.in = {h} /\ unit.in[h].ExternalID = ""
          /\ validateCertificate(unit.in[h].Secret.Crt) = "none" /\ unit.in[h].Secret.HasKey
          /\ LabelledBefore(h) # {}
          /\ \A c \in LabelledBefore(h) : c.Sha1Fingerprint # FingerprintOf(h)
          /\ CertCallsTo("cert.list") # {}
          /\ \A i \in CertCallsTo("cert.list") : unit.calls[i].answer = "none")
         => /\ Cardinality(CertCallsTo("cert.update")) = 1
            /\ CertCallsTo("cert.create") = {}
            /\ \A i \in CertCallsTo("cert.update") :
                 /\ unit.calls[i].id \in CertIDsOf(LabelledBefore(h))
                 /\ unit.err = "none" => unit.res[h] = unit.calls[i].id
    /\ \A i \in CertCallsTo("cert.create") : ~unit.calls[i].labelled
    /\ \A i \in DOMAIN unit.calls :
         unit.calls[i].op \in {"cert.get", "cert.list", "cert.update", "cert.create"}
    /\ CertIDsOf(unit.before) \subseteq CertIDsOf(certs)

\* The secret s1 now holds leaf-B while the provider's certificate for s1
\* has the fingerprint of leaf-A: the certificate is updated in place.
C14_Witness ==
  /\ Synced /\ DOMAIN unit.in = {"tls.io"}
  /\ Certificate("old-1", "s1", "sha1:leaf-A") \in unit.before
  /\ \E i \in CertCallsTo("cert.update") : unit.calls[i].id = "old-1"
  /\ unit.err = "none" /\ unit.res["tls.io"] = "old-1"
  /\ Certificate("old-1", "s1", "sha1:leaf-B") \in certs

\* C15: whenever the list by label of a DeleteLB call yields no load
\* balancer, as an empty list without error or as a not-found error,
\* DeleteLB returns success and issues no delete call.
C15_DeleteOfNothingSucceeds ==
  (pass.ran /\ pass.del.called /\ pass.del.listed = {}
     /\ pass.del.listErr \in {"none", "notfound"})
  => pass.del.err = "none" /\ CallsTo("lb.delete") = {}

\* The provider answered not-found to a call of DeleteLB: to its list, or to
\* its delete of the one load balancer listed.
DeleteSawNotFound ==
  \/ pass.del.listErr = "notfound"
  \/ \E i \in CallsTo("lb.delete") : pass.calls[i].sel = "notfound"

\* C16: DeleteLB returns nil when its list by label or its delete call for
\* the single load balancer listed reports not-found.
C16_NotFoundOnDeleteIsSuccess ==
  (pass.ran /\ pass.del.called /\ DeleteSawNotFound) => pass.del.err = "none"

\* The certificate calls of the last EnsureTLS call that the provider
\* answered with not-found.
CertNotFound ==
  {i \in DOMAIN unit.calls :
     unit.calls[i].op \in {"cert.get", "cert.list"} /\ unit.calls[i].answer = "notfound"}

\* C17: when the provider answers not-found to the lookup of an external
\* certificate id or to the list of certificates by label, EnsureTLS returns
\* an error naming the host and no host-to-certificate map, and issues no
\* create.
C17_NotFoundSurfaces ==
  (Synced /\ CertNotFound # {})
  => /\ unit.err # "none" /\ unit.errHost \in DOMAIN unit.in
     /\ unit.res = EmptyMap
     /\ CertCallsTo("cert.create") = {}

\* The calls that only a pass past the deletion branch makes.
BeyondCleanup ==
  CallsTo("isManagedGateway") \cup (SyncCalls \ CallsTo("lb.list")) \cup CallsTo("Status.Patch")

\* The cleanup of the pass failed: DeleteLB did not return success, or the
\* patch that removes the finalizer was refused.
CleanupFailed ==
  \/ pass.del.err # "none"
  \/ \E i \in CallsTo("Patch") : pass.calls[i].sel = "failed"

\* The pass fetched a Gateway that is being deleted and carries the cleanup
\* finalizer.
FetchedDeleting ==
  /\ pass.ran /\ pass.pre.exists /\ pass.pre.deleting
  /\ GW_FINALIZER \in pass.pre.finalizers
  /\ \E i \in CallsTo("Get") : pass.calls[i].sel = "none"

\* C18: a pass that fetched a Gateway with a deletion timestamp and the
\* cleanup finalizer calls DeleteLB for the Gateway's UID, removes the
\* finalizer only after DeleteLB succeeded, makes no ownership check,
\* validation, EnsureTLS, EnsureLB or status write, and returns every cleanup
\* failure as its error; without a failure the finalizer is gone.
C18_DeletingRunsCleanupOnly ==
  FetchedDeleting
  => /\ pass.del.called /\ \E i \in CallsTo("DeleteLB") : pass.calls[i].sel = GwUID
     /\ BeyondCleanup = {} /\ CallsTo("lb.create") = {}
     /\ \A j \in CallsTo("Patch") :
          pass.del.err = "none" /\ \E i \in CallsTo("DeleteLB") : i < j
     /\ CleanupFailed => pass.err \in {"error", "notfound", "multiple"}
     /\ ~CleanupFailed => pass.err = "none" /\ GW_FINALIZER \notin gw.finalizers

\* The status patches of the pass that the API server did not accept.
FailedStatusPatches == {i \in CallsTo("Status.Patch") : pass.calls[i].sel = "failed"}

\* C19: a pass in which a status patch failed returns an error.
C19_StatusPatchFailureReturned ==
  (pass.ran /\ FailedStatusPatches # {}) => pass.err # "none"

\* C20: a status patch of a pass that holds an older version of the Gateway
\* than the stored one is rejected, and the stored Gateway stays as the
\* other writer left it.
C20_StalePatchRejected ==
  (unit.op = "Status.Patch" /\ unit.stale)
  => unit.err # "none" /\ unit.after = unit.before

Matched == unit.op = "hostMatches"

\* listenerHost is "*." followed by a non-empty suffix, and routeHost ends in
\* a dot followed by that suffix.
WildcardCovers(listenerHost, routeHost) ==
  /\ Len(listenerHost) > 2 /\ listenerHost[1] = "*" /\ listenerHost[2] = "."
  /\ LET suffix == SubSeq(listenerHost, 3, Len(listenerHost))
     IN  \E k \in 0..Len(routeHost) :
           routeHost = SubSeq(routeHost, 1, k) \o <<".">> \o suffix

\* C21: hostMatches is true exactly when the listener host is empty, the two
\* names are equal, or the listener host is "*.suffix" with a non-empty
\* suffix and the route host ends in ".suffix"; so a wildcard listener does
\* not match its apex, and two different names without wildcard do not
\* match.
C21_HostMatches ==
  Matched =>
    /\ unit.out <=> \/ unit.listenerHost = <<>>
                    \/ unit.listenerHost = unit.routeHost
                    \/ WildcardCovers(unit.listenerHost, unit.routeHost)
    /\ (Len(unit.listenerHost) > 2 /\ SubSeq(unit.listenerHost, 1, 2) = <<"*", ".">>
          /\ unit.routeHost = SubSeq(unit.listenerHost, 3, Len(unit.listenerHost)))
         => ~unit.out
    /\ (unit.listenerHost # <<>> /\ unit.listenerHost[1] # "*"
          /\ unit.listenerHost # unit.routeHost) => ~unit.out

\* The wildcard listener "*.a" and the apex "a".
C21_Witness ==
  /\ Matched /\ unit.listenerHost = <<"*", ".", "a">> /\ unit.routeHost = <<"a">>
  /\ ~unit.out

\* C22: isRouteNamespaceAllowed is true for All; for Selector iff every key
\* of the selector is a key of the namespace's labels with the same value;
\* for Same and every other policy iff the two namespaces are equal.
C22_NamespaceAllowed ==
  unit.op = "isRouteNamespaceAllowed" =>
    (unit.out <=>
       CASE unit.AllowedFrom = "All" -> TRUE
         [] unit.AllowedFrom = "Selector" ->
              \A k \in DOMAIN unit.Selector :
                k \in DOMAIN unit.nsLabels /\ unit.nsLabels[k] = unit.Selector[k]
         [] OTHER -> unit.listenerNS = unit.routeNS)

ClassCallsTo(op) == {i \in DOMAIN unit.calls : unit.calls[i].op = op}

\* The pass of the GatewayClass reconciler fetched a class.
ClassFetched ==
  /\ unit.op = "GatewayClassReconciler.Reconcile"
  /\ \E i \in ClassCallsTo("Get") : unit.calls[i].answer = "none"

\* C23: a pass of the GatewayClass reconciler that fetched a class writes
\* Accepted=True / Accepted iff the class names this controller; for any
\* other class it writes nothing and returns no error; no pass changes the
\* finalizers of a class.
C23_ClassAccepted ==
  /\ ClassFetched =>
       /\ ClassCallsTo("Status.Update") # {} <=> unit.pre.controllerName = ControllerName
       /\ \A i \in ClassCallsTo("Status.Update") :
            /\ unit.calls[i].arg = "Accepted=True/Accepted"
            /\ unit.err = unit.calls[i].answer
            /\ unit.err = "none" => unit.post.accepted = Cond("True", "Accepted")
       /\ unit.pre.controllerName # ControllerName
            => unit.err = "none" /\ unit.post = unit.pre
  /\ unit.op = "GatewayClassReconciler.Reconcile"
       => unit.post.finalizers = unit.pre.finalizers

\* A class of this controller that the API server left at Accepted=Unknown
\* is accepted; the finalizer another client put on it stays.
C23_Witness ==
  /\ ClassFetched /\ unit.pre.name = "sc" /\ unit.pre.accepted = Cond("Unknown", "Pending")
  /\ unit.pre.finalizers # {}
  /\ gc.accepted = Cond("True", "Accepted") /\ gc.finalizers = unit.pre.finalizers

LBSynced == unit.op = "EnsureLB"

LBCallsTo(op) == {i \in DOMAIN unit.calls : unit.calls[i].op = op}

\* The hosts of the topology that come out as vhost zones, and the paths
\* that come out as upstream zones.
ZoneHosts(gwInfo) ==
  {h \in DOMAIN gwInfo.VHosts : gwInfo.VHosts[h].Ports # <<>> /\ gwInfo.VHosts[h].Paths # <<>>}

ZonePaths(gwInfo) == UNION {Range(gwInfo.VHosts[h].Paths) : h \in DOMAIN gwInfo.VHosts}

\* C24: for a topology without vhost zones or without upstream zones the
\* translation returns an error, and EnsureLB issues no create and no
\* update and leaves the provider as it was, whether it lists no load
\* balancer, a pending one or an active one.
C24_EmptyNeverSynced ==
  (LBSynced /\ (ZoneHosts(unit.gwInfo) = {} \/ ZonePaths(unit.gwInfo) = {}))
  => /\ unit.translated.err # "none"
     /\ LBCallsTo("lb.create") = {} /\ LBCallsTo("lb.update") = {}
     /\ lbs = unit.before
     /\ (unit.listErr = "none" /\ \A lb \in unit.listed : ~notActiveYet(lb))
          => unit.err # "none"

\* A Gateway whose only host has ports but no path, with an active load
\* balancer at the provider: the call fails after the list.
C24_Witness ==
  /\ LBSynced /\ DOMAIN unit.gwInfo.VHosts = {"tls.io"}
  /\ unit.gwInfo.VHosts["tls.io"].Ports # <<>> /\ unit.gwInfo.VHosts["tls.io"].Paths = <<>>
  /\ \E lb \in unit.listed : lb.status = LB_ACTIVE_STATUS
  /\ unit.err = "translate" /\ Len(unit.calls) = 1

\* C25: the translation of a topology that holds a VHost without ports or
\* without paths returns an error, whatever the other VHosts are.
C25_InvalidVHostRejected ==
  (LBSynced /\ \E h \in DOMAIN unit.gwInfo.VHosts :
                 unit.gwInfo.VHosts[h].Ports = <<>> \/ unit.gwInfo.VHosts[h].Paths = <<>>)
  => unit.translated.err # "none"

Resolved == unit.op = "buildTLSInfo"

\* Listener l is an HTTPS listener that the resolver must refuse: no
\* hostname, no TLS block, a mode other than Terminate, or neither an
\* external id nor a certificate reference to a core Secret.
InvalidHTTPS(l) ==
  /\ l.Protocol = "HTTPS"
  /\ \/ l.Hostname \in {Nil, ""}
     \/ ~l.TLS.Present
     \/ l.TLS.Mode # "Terminate"
     \/ /\ MapGet(l.TLS.Options, TLS_EXTERNAL_ID_KEY) = ""
        /\ \A j \in DOMAIN l.TLS.CertificateRefs :
             ~(l.TLS.CertificateRefs[j].Kind \in {Nil, "Secret"}
                 /\ l.TLS.CertificateRefs[j].Group \in {Nil, ""})

InvalidListeners == {i \in DOMAIN unit.listeners : InvalidHTTPS(unit.listeners[i])}

FailedGets == {j \in DOMAIN unit.gets : unit.gets[j].answer # "none"}

\* C26: buildTLSInfo fails iff some HTTPS listener is invalid or the read
\* of a Secret failed; without a failed read the error reports every invalid
\* listener of the Gateway, and only those; a failed read of a Secret is the
\* last thing the call does; a listener that is not HTTPS is never reported.
C26_ValidationAccumulates ==
  Resolved =>
    /\ unit.err # "none" <=> (InvalidListeners # {} \/ FailedGets # {})
    /\ (FailedGets = {} /\ InvalidListeners # {})
         => /\ unit.err = "validation"
            /\ {unit.errs[k][1] : k \in DOMAIN unit.errs} = InvalidListeners
            /\ Len(unit.errs) = Cardinality(InvalidListeners)
    /\ FailedGets # {}
         => /\ unit.err = "secret" /\ FailedGets = {Len(unit.gets)}
            /\ \A k \in DOMAIN unit.errs :
                 unit.errs[k][1] < unit.gets[Len(unit.gets)].listener
    /\ \A k \in DOMAIN unit.errs : unit.listeners[unit.errs[k][1]].Protocol = "HTTPS"
    /\ unit.err # "none" => unit.result = EmptyMap

\* Two invalid HTTPS listeners, one without hostname and one in Passthrough
\* mode: both are reported.
C26_Witness ==
  /\ Resolved /\ Len(unit.listeners) = 2 /\ InvalidListeners = {1, 2}
  /\ unit.listeners[1].Hostname = Nil /\ unit.listeners[2].TLS.Mode = "Passthrough"
  /\ unit.err = "validation" /\ Len(unit.errs) = 2 /\ unit.gets = <<>>

\* Listener i is an HTTPS listener that passes validation and carries a
\* non-empty external certificate id.
WithExternalID(i) ==
  LET l == unit.listeners[i]
  IN  /\ l.Protocol = "HTTPS" /\ l.Hostname \notin {Nil, ""}
      /\ l.TLS.Present /\ l.TLS.Mode = "Terminate"
      /\ MapGet(l.TLS.Options, TLS_EXTERNAL_ID_KEY) # ""

\* Listener i is the last HTTPS listener of its hostname.
LastOfHost(i) ==
  \A j \in DOMAIN unit.listeners :
    (j > i /\ unit.listeners[j].Protocol = "HTTPS")
      => unit.listeners[j].Hostname # unit.listeners[i].Hostname

C28_SeveralCertsIsError ==
  \A h \in DOMAIN (IF Synced THEN unit.in ELSE EmptyMap) :
    (/\ DOMAIN unit.in = {h}
     /\ Cardinality(LabelledBefore(h)) > 1
     /\ \E i \in CertCallsTo("cert.list") : unit.calls[i].answer = "none")
    => /\ unit.err # "none"
       /\ CertCallsTo("cert.create") = {} /\ CertCallsTo("cert.update") = {}
       /\ certs = unit.before

Mapped ==
  unit.op \in {"findGatewaysForHTTPRoute", "findGatewaysForService", "findGatewaysForSecret"}

\* The Gateway under key is in the cluster and belongs to this controller:
\* its class exists, names the controller and is the class the controller is
\* restricted to.
ManagedAt(gateways, key) ==
  /\ key \in DOMAIN gateways
  /\ GatewayClasses[gateways[key].className] = ControllerName
  /\ gateways[key].className = GatewayClassName

\* C29: a mapper issues only reads of the cluster (Get, List and the class
\* read of the ownership check), and every key it returns is that of a
\* Gateway of the cluster that this controller manages.
C29_MappersReadOnly ==
  Mapped =>
    /\ \A i \in DOMAIN unit.calls : unit.calls[i].op \in {"Get", "List", "isManagedGateway"}
    /\ \A i \in DOMAIN unit.requests : ManagedAt(unit.gateways, unit.requests[i])
    /\ \A i \in DOMAIN unit.requests :
         \E j \in DOMAIN unit.calls :
           /\ unit.calls[j] = MapCall("isManagedGateway", unit.requests[i], "none")

\* A route of ns-b with two parents: its own namespace's Gateway, which is
\* managed, and a Gateway of another controller in ns-a; only the first is
\* returned.
C29_Witness ==
  /\ unit.op = "findGatewaysForHTTPRoute" /\ unit.obj.Namespace = "ns-b"
  /\ Len(unit.obj.ParentRefs) = 2
  /\ unit.requests = <<<<"ns-b", "gw">>>>
  /\ <<"ns-a", "gw">> \in DOMAIN unit.gateways
  /\ unit.gateways[<<"ns-a", "gw">>].className = "foreign"
  /\ MapCall("isManagedGateway", <<"ns-a", "gw">>, "none") \in Range(unit.calls)

\* The listeners of the build that a route matches for one of its hostnames.
MatchedBy(route, hostname) ==
  LET listeners == prepareListeners(unit.listeners).listeners
      sectionNames == {route.ParentRefs[i].SectionName : i \in DOMAIN route.ParentRefs} \ {Nil}
  IN  {l \in Range(listeners) :
         /\ (sectionNames = {} \/ l.Name \in sectionNames)
         /\ isRouteNamespaceAllowed(l, TheGateway.Namespace, route.Namespace,
                                    Cluster.Namespaces[route.Namespace])
         /\ hostMatches(Chars(l.Hostname), Chars(hostname))}

\* The listeners matched for a host by the attached routes that declare it.
MatchedFor(hostname) ==
  UNION {MatchedBy(unit.routes[i], hostname)
           : i \in {i \in DOMAIN unit.routes :
                      /\ isRouteAttachedToGateway(unit.routes[i], TheGateway)
                      /\ hostname \in Range(unit.routes[i].Hostnames)}}

\* C30: in the GatewayInfo of a build that succeeds, a VHost has SSL set iff
\* a listener matched for its host is HTTPS, and each of its ports is the
\* port of a matched HTTPS listener when SSL is set and of a matched HTTP
\* listener otherwise, also after the ports of several routes are merged.
C30_PortsOfOneProtocol ==
  (Built /\ unit.out.err = "none") =>
    \A h \in DOMAIN unit.out.VHosts :
      LET vh == unit.out.VHosts[h]
          protocol == IF vh.SSL THEN "HTTPS" ELSE "HTTP"
      IN  /\ vh.SSL <=> \E l \in MatchedFor(h) : l.Protocol = "HTTPS"
          /\ \A p \in Range(vh.Ports) :
               \E l \in MatchedFor(h) : l.Port = p /\ l.Protocol = protocol

\* C31: the port list of every VHost of a build that succeeds holds no port
\* twice, when the VHost is created from one route and after a merge.
C31_NoDuplicatePorts ==
  (Built /\ unit.out.err = "none") =>
    \A h \in DOMAIN unit.out.VHosts :
      LET ports == unit.out.VHosts[h].Ports
      IN  \A i, j \in DOMAIN ports : ports[i] = ports[j] => i = j

AddressesOf(addresses, type) ==
  {addresses[i].Address : i \in {i \in DOMAIN addresses : addresses[i].Type = type}}

\* The one IP expected of a node: an external address when it has one, else
\* an internal one, else none.
ExpectedOf(addresses, ip) ==
  IF AddressesOf(addresses, "ExternalIP") # {} THEN ip \in AddressesOf(addresses, "ExternalIP")
  ELSE ip \in AddressesOf(addresses, "InternalIP")

HasIP(addresses) ==
  AddressesOf(addresses, "ExternalIP") \cup AddressesOf(addresses, "InternalIP") # {}

\* C32: node IP collection yields one IP per node that has an external or
\* internal address, in node order: the external address when the node has
\* one, whatever the order of its address list, else its internal address.
C32_ExternalPreferred ==
  (unit.op = "getNodesIpList" /\ unit.err = "none") =>
    LET withIP == SelectSeq(unit.nodes, HasIP)
    IN  /\ Len(unit.nodeIPs) = Len(withIP)
        /\ \A i \in DOMAIN withIP : ExpectedOf(withIP[i], unit.nodeIPs[i])

\* The first backend reference of a rule names a non-core group, a Service
\* that cannot be fetched, or a Service port with no NodePort.
BadBackend(route, rule) ==
  /\ Len(rule.BackendRefs) > 0
  /\ LET backend == rule.BackendRefs[1]
          ns == IF backend.Namespace # Nil THEN backend.Namespace ELSE route.Namespace
          key == <<ns, backend.Name>>
      IN  \/ backend.Group # Nil /\ backend.Group # ""
          \/ key \notin DOMAIN Cluster.Services
          \/ LET ports == Cluster.Services[key].Ports
                  wantPort == IF backend.Port # NilPort THEN backend.Port
                              ELSE IF Len(ports) > 0 THEN ports[1].Port ELSE 0
              IN  \E i \in DOMAIN ports :
                    /\ ports[i].Port = wantPort /\ ports[i].NodePort = 0
                    /\ \A j \in 1..(i - 1) : ports[j].Port # wantPort

\* C33: a build on a Gateway with an attached route one of whose rules has
\* such a first backend reference fails, whether or not the hostnames of
\* the route match a listener.
C33_BadRouteFailsBuild ==
  Built =>
    \A i \in DOMAIN unit.routes :
      (/\ isRouteAttachedToGateway(unit.routes[i], TheGateway)
       /\ \E k \in DOMAIN unit.routes[i].Rules :
            BadBackend(unit.routes[i], unit.routes[i].Rules[k]))
      => unit.out.err # "none"

\* C34: in every stored Gateway status, Programmed=True implies
\* Accepted=True.
C34_AcceptedBeforeProgrammed ==
  (gw.exists /\ gw.programmed.status = "True") => gw.accepted.status = "True"

Translated == unit.op = "translateGatewayToLBInput" /\ unit.reached

\* The certificate ids resolved for the HTTPS listeners matched for a host.
CertIDsFor(hostname) ==
  {unit.hostsCertIDMap[l.Hostname]
     : l \in {l \in MatchedFor(hostname) :
                l.Protocol = "HTTPS" /\ l.Hostname \in DOMAIN unit.hostsCertIDMap}}

\* C36: when TLS resolution and EnsureTLS both succeeded, every vhost zone
\* of the provider input with SSL set carries a certificate id that is not
\* empty and is the id resolved for an HTTPS listener matched for its host,
\* also when that listener's hostname is a wildcard pattern.
C36_SSLZoneHasCertificate ==
  Translated =>
    \A z \in unit.input.VHostZones :
      z.SSL => z.SSLCertID # "" /\ z.SSLCertID \in CertIDsFor(z.ID)

\* C37: in every input the translation produces, each location of a vhost
\* zone names an upstream zone of the input, and each upstream zone of the
\* input is named by a location of one of its vhost zones.
C37_UpstreamsMatchLocations ==
  (LBSynced /\ unit.translated.err = "none") =>
    /\ \A z \in unit.translated.VHostZones : z.LocationZones \subseteq unit.translated.UpstreamZones
    /\ \A u \in unit.translated.UpstreamZones :
         \E z \in unit.translated.VHostZones : u \in z.LocationZones

\* The names of the Secrets buildTLSInfo reads for the Gateway under key,
\* each in the Gateway's namespace.
FetchedBy(gateways, key) ==
  UNION {{r.gets[i].name : i \in DOMAIN r.gets}
           : r \in buildTLSInfoFrom(gateways[key].Listeners, Secrets, 1, NewResolve)}

\* C38: when every read of the Secret mapper succeeds, it returns every
\* managed Gateway for which buildTLSInfo reads the Secret it is called on.
C38_SecretMapperComplete ==
  (/\ unit.op = "findGatewaysForSecret"
   /\ \A i \in DOMAIN unit.calls : unit.calls[i].answer = "none")
  => \A key \in DOMAIN unit.gateways :
       (/\ ManagedAt(unit.gateways, key)
        /\ key[1] = unit.obj.Namespace
        /\ unit.obj.Name \in FetchedBy(unit.gateways, key))
       => key \in Range(unit.requests)

C40_AddressesOnlyWhileProgrammed ==
  (gw.exists /\ gw.addresses # <<>>) => gw.programmed.status = "True"

====
